---------------------------- MODULE Spec2Model ----------------------------
(***************************************************************************)
(* Banner registry of LucasRD3/Banner-server-Teste.                        *)
(*                                                                         *)
(* The model follows src/Server.js (day + priority version) and, where     *)
(* its code differs, the priority version kept in src/unnamed/part_001.    *)
(* The Attribute Store (Upstash Redis) holds three keys: a hash            *)
(* URL -> day, a sorted set URL -> score and a set of disabled URLs.       *)
(* The Media Store (Cloudinary) holds the uploaded assets.                 *)
(*                                                                         *)
(* Strings the code inspects (days, priorities, URLs) are sequences of     *)
(* one-character strings, so that toUpperCase, parseInt, split and the     *)
(* byte order of sorted-set members are computed as the code computes      *)
(* them.                                                                   *)
(***************************************************************************)
EXTENDS Integers, Sequences, FiniteSets, TLC

VARIABLES
    variant,       \* which server file runs: "Server", "Part001", "Part000"
                   \* or "Part002"
    activeHash,    \* ACTIVE_BANNERS_KEY  (HASH): URL -> day
    priorityZset,  \* PRIORITY_BANNERS_KEY (ZSET): URL -> score
    disabledSet,   \* DISABLED_BANNERS_KEY (SET) of URLs
    assets,        \* Media Store: URLs whose asset exists
    issued,        \* Media Store: URLs ever returned by an upload
    resp,          \* the HTTP response of the last request
    inflight,      \* the requests whose handler is between two store calls
    disturbed,     \* history: URLs on which a request was cut by a failed store
                   \* call, or ran while another request on the same URL did
    answers,       \* the response each running handler gave to its last request
    probe,         \* a call of extractPublicIdFromUrl: its argument and result
    statusStore,   \* src/unnamed/part_002: the keys banner:<id> (HASH each)
    lastAccepted   \* history: banner id -> status of its last request answered 200

vars == <<variant, activeHash, priorityZset, disabledSet, assets, issued, resp,
          inflight, disturbed, answers, probe, statusStore, lastAccepted>>

-----------------------------------------------------------------------------
(* Bounds of the model.                                                    *)

\* Number of distinct URLs the Media Store can hand out.
NumUrls == 2

\* Largest priority a request sends as a well-formed numeral.
MaxPriority == 1

-----------------------------------------------------------------------------
(* JavaScript values of request fields and store replies.                  *)

Undefined == [t |-> "undefined"]
Null == [t |-> "null"]
NaN == [t |-> "NaN"]
Str(s) == [t |-> "string", s |-> s]
Num(n) == [t |-> "number", n |-> n]

\* JavaScript truthiness, as used by `x ? a : b`, `x || y` and `!x`.
Truthy(v) ==
    CASE v.t = "string" -> v.s # <<>>
      [] v.t = "number" -> v.n # 0
      [] OTHER -> FALSE

-----------------------------------------------------------------------------
(* Characters.                                                             *)

LowerCase == <<"a","b","c","d","e","f","g","h","i","j","k","l","m",
               "n","o","p","q","r","s","t","u","v","w","x","y","z">>
UpperCase == <<"A","B","C","D","E","F","G","H","I","J","K","L","M",
               "N","O","P","Q","R","S","T","U","V","W","X","Y","Z">>
Digits == <<"0","1","2","3","4","5","6","7","8","9">>

\* The characters of the model in ascending byte order (ASCII).
ByteOrder == <<" ", "+", "-", ".", "/">> \o Digits \o UpperCase \o <<"_">> \o LowerCase

IndexOf(seq, c) == CHOOSE i \in DOMAIN seq : seq[i] = c

CharCode(c) == IndexOf(ByteOrder, c)

IsDigit(c) == \E i \in DOMAIN Digits : Digits[i] = c

DigitVal(c) == IndexOf(Digits, c) - 1

\* String.prototype.toUpperCase, character by character.
UpperChar(c) ==
    IF \E i \in DOMAIN LowerCase : LowerCase[i] = c
    THEN UpperCase[IndexOf(LowerCase, c)]
    ELSE c

ToUpperCase(s) == [i \in DOMAIN s |-> UpperChar(s[i])]

\* Byte-wise comparison of two strings (memcmp, then length): a < b.
RECURSIVE StrLessFrom(_, _, _)
StrLessFrom(a, b, i) ==
    IF i > Len(a) THEN i <= Len(b)
    ELSE IF i > Len(b) THEN FALSE
    ELSE IF a[i] = b[i] THEN StrLessFrom(a, b, i + 1)
    ELSE CharCode(a[i]) < CharCode(b[i])

StrLess(a, b) == StrLessFrom(a, b, 1)

-----------------------------------------------------------------------------
(* Number <-> string conversions.                                          *)

\* Number.prototype.toString for an integer.
RECURSIVE NatToChars(_)
NatToChars(n) ==
    IF n < 10 THEN <<Digits[n + 1]>>
    ELSE NatToChars(n \div 10) \o <<Digits[(n % 10) + 1]>>

NumToChars(n) == IF n < 0 THEN <<"-">> \o NatToChars(-n) ELSE NatToChars(n)

\* Value of the longest run of digits of s starting at position i.
RECURSIVE DigitRun(_, _, _)
DigitRun(s, i, acc) ==
    IF i > Len(s) \/ ~IsDigit(s[i]) THEN acc
    ELSE DigitRun(s, i + 1, acc * 10 + DigitVal(s[i]))

RECURSIVE SkipSpaces(_, _)
SkipSpaces(s, i) == IF i <= Len(s) /\ s[i] = " " THEN SkipSpaces(s, i + 1) ELSE i

\* parseInt(s, 10) of a string: leading blanks, an optional sign, then the
\* longest prefix of digits; NaN when there is no digit.
ParseIntChars(s) ==
    LET i0 == SkipSpaces(s, 1)
        signed == i0 <= Len(s) /\ s[i0] \in {"+", "-"}
        sign == IF signed /\ s[i0] = "-" THEN -1 ELSE 1
        i1 == IF signed THEN i0 + 1 ELSE i0
    IN  IF i1 > Len(s) \/ ~IsDigit(s[i1]) THEN NaN
        ELSE Num(sign * DigitRun(s, i1, 0))

\* parseInt(v, 10): the argument is first converted to a string.
ParseInt(v) ==
    CASE v.t = "string" -> ParseIntChars(v.s)
      [] v.t = "number" -> ParseIntChars(NumToChars(v.n))
      [] OTHER -> NaN      \* "undefined", "null", "NaN" hold no digit

IsNaN(v) == v.t = "NaN"

-----------------------------------------------------------------------------
(* Program constants.                                                      *)

ALL == <<"A","L","L">>

\* DAYS_MAP: Date.getDay() (0 = Sunday) -> day code.
DAYS_MAP ==
    [d \in 0..6 |->
        CASE d = 0 -> <<"S","U","N">>
          [] d = 1 -> <<"M","O","N">>
          [] d = 2 -> <<"T","U","E">>
          [] d = 3 -> <<"W","E","D">>
          [] d = 4 -> <<"T","H","U">>
          [] d = 5 -> <<"F","R","I">>
          [] d = 6 -> <<"S","A","T">>]

\* validDays = [...Object.values(DAYS_MAP), 'ALL']
validDays == {DAYS_MAP[d] : d \in 0..6} \cup {ALL}

CLOUDINARY_FOLDER == <<"b","a","n","n","e","r","s","_","f","o","l","d","e","r">>

-----------------------------------------------------------------------------
(* The Media Store's URLs.  Every secure_url starts with the same          *)
(* https://res.cloudinary.com/<cloud>/image/upload/ prefix, which changes  *)
(* neither the order of two URLs nor their last two segments, so the       *)
(* model keeps the part after it.  The second URL has a shape the upload   *)
(* folder does not produce (an upstream change of the URL format).         *)

UrlTexts ==
    << CLOUDINARY_FOLDER \o <<"/","b",".","p","n","g">>,
       <<"v","1","/","c",".","p","n","g">>,
       CLOUDINARY_FOLDER \o <<"/","a",".","p","n","g">>,
       CLOUDINARY_FOLDER \o <<"/","d">> >>

Urls == {UrlTexts[i] : i \in 1..NumUrls}

-----------------------------------------------------------------------------
(* Attribute Store commands (Redis), on the value held under one key.      *)
(* A hash and a sorted set are functions from their fields / members.      *)

EmptyMap == [x \in {} |-> 0]

Restrict(f, S) == [x \in S |-> f[x]]

\* HSET key {field: value}
Hset(h, field, value) ==
    [x \in DOMAIN h \cup {field} |-> IF x = field THEN value ELSE h[x]]

\* HDEL key field: the new hash, and the number of fields removed
\* (Hdel_Kept is the mutant of Hdel that leaves the field in the hash.)
Hdel_Kept(h, field) == h
Hdel(h, field) == Restrict(h, DOMAIN h \ {field})
\* (HdelCount_AlwaysOne is the mutant of HdelCount that always reports a removal.)
HdelCount_AlwaysOne(h, field) == 1
HdelCount(h, field) == IF field \in DOMAIN h THEN 1 ELSE 0

\* HGET key field: the value, or null
Hget(h, field) == IF field \in DOMAIN h THEN Str(h[field]) ELSE Null

\* ZADD key {score, member}: adds the member or updates its score
\* (Zadd_KeepExisting is the mutant of Zadd that answers as ZADD NX does.)
Zadd_KeepExisting(z, score, member) ==
    IF member \in DOMAIN z THEN z
    ELSE [x \in DOMAIN z \cup {member} |-> IF x = member THEN score ELSE z[x]]
Zadd(z, score, member) ==
    [x \in DOMAIN z \cup {member} |-> IF x = member THEN score ELSE z[x]]

\* ZREM key member
\* (Zrem_Kept is the mutant of Zrem that leaves the member in the sorted set.)
Zrem_Kept(z, member) == z
Zrem(z, member) == Restrict(z, DOMAIN z \ {member})
ZremCount(z, member) == IF member \in DOMAIN z THEN 1 ELSE 0

\* SADD / SREM / SISMEMBER
\* (Sadd_Dropped is the mutant of Sadd that adds nothing.)
Sadd_Dropped(s, member) == s
Sadd(s, member) == s \cup {member}
\* Mutant of Srem: the member is reported removed but stays in the set.
Srem_Kept(s, member) == s
Srem(s, member) == s \ {member}
\* Mutant of SremCount: the reply always reports one member removed.
SremCount_AlwaysOne(s, member) == 1
SremCount(s, member) == IF member \in s THEN 1 ELSE 0
\* (Sismember_Never is the mutant of Sismember that never finds the member.)
Sismember_Never(s, member) == 0
Sismember(s, member) == IF member \in s THEN 1 ELSE 0

\* The sorted set's order: by score, members of equal score by byte order.
ZLess(z, a, b) == z[a] < z[b] \/ (z[a] = z[b] /\ StrLess(a, b))

\* The members of S from the greatest to the least in the sorted set's order.
RECURSIVE ZDescending(_, _)
ZDescending(z, S) ==
    IF S = {} THEN <<>>
    ELSE LET top == CHOOSE a \in S : \A b \in S \ {a} : ZLess(z, b, a)
         IN  <<top>> \o ZDescending(z, S \ {top})

Reverse(seq) == [i \in DOMAIN seq |-> seq[Len(seq) + 1 - i]]

\* The flat reply [member1, score1, member2, score2, ...] of a range
\* WITHSCORES over the members in the given order.
RECURSIVE WithScores(_, _)
WithScores(z, members) ==
    IF members = <<>> THEN <<>>
    ELSE <<Str(Head(members)), Num(z[Head(members)])>> \o WithScores(z, Tail(members))

\* ZREVRANGE key 0 -1 WITHSCORES: greatest score first
\* (Zrevrange_Ascending is its mutant that answers as ZRANGE does.)
Zrevrange_Ascending(z) == WithScores(z, Reverse(ZDescending(z, DOMAIN z)))
Zrevrange(z) == WithScores(z, ZDescending(z, DOMAIN z))

\* ZRANGE key 0 -1 {withScores: true}: least score first
Zrange(z) == WithScores(z, Reverse(ZDescending(z, DOMAIN z)))

\* The orders in which a reply can list the elements of S.
Orders(S) ==
    {o \in [1..Cardinality(S) -> S] : \A i, j \in 1..Cardinality(S) : o[i] = o[j] => i = j}

\* HGETALL key: null for a missing hash, else the fields as Object.entries
\* lists them.  Redis fixes no order of the fields; `order` is the one used.
Hgetall(h, order) ==
    IF DOMAIN h = {} THEN Null
    ELSE [t |-> "object", entries |-> [i \in DOMAIN order |-> <<order[i], h[order[i]]>>]]

\* SMEMBERS key, listed in `order`
Smembers(s, order) == order

-----------------------------------------------------------------------------
(* Helpers of the handlers.                                                *)

\* The registry part of the state, as the handlers read and write it.
Registry == [hash |-> activeHash, zset |-> priorityZset, disabled |-> disabledSet]

\* The Media Store part of the state.
Media == [assets |-> assets, issued |-> issued]

\* res.status(status).json(body)
Response(op, status, body) == [op |-> op, status |-> status, body |-> body]

\* What a handler leaves behind: the registry, the Media Store, the response.
Outcome(reg, media, response) == [reg |-> reg, media |-> media, resp |-> response]

\* Array.prototype.sort((a, b) => b.priority - a.priority): a stable sort,
\* greatest priority first.  Inserts x behind every element that does not
\* sort after it.
\* (InsertByPriority_Unsorted is its mutant that compares nothing.)
InsertByPriority_Unsorted(sorted, x) == Append(sorted, x)

RECURSIVE InsertByPriority(_, _)
InsertByPriority(sorted, x) ==
    IF sorted = <<>> THEN <<x>>
    ELSE IF Head(sorted).priority.n >= x.priority.n
         THEN <<Head(sorted)>> \o InsertByPriority(Tail(sorted), x)
         ELSE <<x>> \o sorted

RECURSIVE SortByPriorityDesc(_)
SortByPriorityDesc(list) ==
    IF list = <<>> THEN <<>>
    ELSE InsertByPriority(SortByPriorityDesc(SubSeq(list, 1, Len(list) - 1)), list[Len(list)])

\* list.reduce((map, b) => { map[b.url] = b[field]; return map }, {}):
\* the object's own keys and the value of each.
MapKeys(list) == {list[i].url : i \in DOMAIN list}
MapValue(list, url, field) ==
    LET last == CHOOSE i \in DOMAIN list :
                    list[i].url = url /\ \A j \in DOMAIN list : list[j].url = url => j <= i
    IN  list[last][field]

\* getActiveBannersWithDay of src/Server.js: [{url, day}] from the hash.
getActiveBannersWithDay(reg, order) ==
    LET hashData == Hgetall(reg.hash, order)
    IN  IF hashData = Null THEN <<>>
        ELSE [i \in DOMAIN hashData.entries |->
                 [url |-> hashData.entries[i][1], day |-> hashData.entries[i][2]]]

\* getActiveBannersWithPriority of src/Server.js: [{url, priority}] from the
\* sorted set, greatest score first.
getActiveBannersWithPriority(reg) ==
    LET zsetData == Zrevrange(reg.zset)
    IN  IF Len(zsetData) = 0 THEN <<>>
        ELSE [k \in 1..(Len(zsetData) \div 2) |->
                 [url |-> zsetData[2 * k - 1].s, priority |-> ParseInt(zsetData[2 * k])]]

\* getActiveBannersWithDay of src/unnamed/part_001: [{url, day, priority}]
\* for the fields of the hash that also have a score.
P1_getActiveBannersWithDay(reg, order) ==
    LET hashData == Hgetall(reg.hash, order)
        zsetMembers == Zrange(reg.zset)
        zsetMap == [k \in 1..(Len(zsetMembers) \div 2) |->
                       [url |-> zsetMembers[2 * k - 1].s, score |-> zsetMembers[2 * k]]]
        has(url) == url \in MapKeys(zsetMap)
        combined ==
            [i \in DOMAIN hashData.entries |->
                LET url == hashData.entries[i][1]
                IN  [url |-> url,
                     day |-> hashData.entries[i][2],
                     priority |-> IF has(url) THEN ParseInt(MapValue(zsetMap, url, "score"))
                                  ELSE Num(0)]]
        inBoth(banner) == has(banner.url)
    IN  IF hashData = Null THEN <<>>
        ELSE SelectSeq(combined, inBoth)

-----------------------------------------------------------------------------
(* extractPublicIdFromUrl.                                                 *)

\* String.prototype.split('/')
RECURSIVE SplitFrom(_, _, _)
SplitFrom(s, i, cur) ==
    IF i > Len(s) THEN <<cur>>
    ELSE IF s[i] = "/" THEN <<cur>> \o SplitFrom(s, i + 1, <<>>)
    ELSE SplitFrom(s, i + 1, Append(cur, s[i]))

Split(s) == SplitFrom(s, 1, <<>>)

\* String.prototype.lastIndexOf(c): 0-based, -1 when c does not occur
LastIndexOf(s, c) ==
    IF \E i \in DOMAIN s : s[i] = c
    THEN (CHOOSE i \in DOMAIN s : s[i] = c /\ \A j \in DOMAIN s : s[j] = c => j <= i) - 1
    ELSE -1

\* String.prototype.substring(0, end): a negative end counts as 0
Substring0(s, end) == SubSeq(s, 1, IF end < 0 THEN 0 ELSE end)

\* extractPublicIdFromUrl(url): 'banners_folder/<file name>' or null.  A url
\* that is no string has no split method; the catch block returns null.
extractPublicIdFromUrl(url) ==
    IF url.t # "string" THEN Null
    ELSE LET parts == Split(url.s)
         IN  IF Len(parts) < 2 THEN Null
             ELSE LET fileNameWithExt == parts[Len(parts)]
                      fileName == Substring0(fileNameWithExt, LastIndexOf(fileNameWithExt, "."))
                      folderName == parts[Len(parts) - 1]
                  IN  IF folderName # CLOUDINARY_FOLDER THEN Null
                      ELSE Str(folderName \o <<"/">> \o fileName)

-----------------------------------------------------------------------------
(* The handlers of src/Server.js.  Each takes the registry, the Media      *)
(* Store, the request body and `fail`, the number of the remote call of    *)
(* this request that throws (0: none does), and gives the Outcome.         *)

\* An exception thrown outside the handler's try block: Express sends no
\* response for it.
NoResponse(op, thrown) == [op |-> op, status |-> 0, body |-> [thrown |-> thrown]]

\* day ? day.toUpperCase() : 'ALL' throws when day is truthy and no string.
DayThrows(day) == Truthy(day) /\ day.t # "string"
TargetDay(day) == IF Truthy(day) THEN ToUpperCase(day.s) ELSE ALL

\* Mutant of TargetPriority: the field is ignored, the default is used.
TargetPriority_DefaultOnly(priority) == ParseInt(Str(<<"0">>))

\* parseInt(priority || '0', 10)
TargetPriority(priority) ==
    ParseInt(IF Truthy(priority) THEN priority ELSE Str(<<"0">>))

\* isNaN(priority) || priority < 0
BadPriority(p) == IsNaN(p) \/ p.n < 0

\* Mutant of CreateHandler: the hash is written before the upload is awaited.
CreateHandler_WriteBeforeUpload(reg, media, body, uploaded, fail) ==
    LET day == TargetDay(body.day)
        priority == TargetPriority(body.priority)
        failed == Response("create", 500, [error |-> "Falha ao fazer upload."])
        media1 == [assets |-> media.assets \cup {uploaded},
                   issued |-> media.issued \cup {uploaded}]
        reg2 == [reg EXCEPT !.hash = Hset(reg.hash, uploaded, day)]
        reg3 == [reg2 EXCEPT !.zset = Zadd(reg2.zset, priority.n, uploaded)]
    IN  IF ~body.file
        THEN Outcome(reg, media, Response("create", 400, [error |-> "Nenhum arquivo enviado."]))
        ELSE IF day \notin validDays
        THEN Outcome(reg, media, Response("create", 400, [error |-> "Dia invalido."]))
        ELSE IF BadPriority(priority)
        THEN Outcome(reg, media, Response("create", 400, [error |-> "Prioridade invalida."]))
        ELSE IF fail = 1 THEN Outcome(reg2, media, failed)
        ELSE IF fail = 2 THEN Outcome(reg2, media1, failed)
        ELSE IF fail = 3 THEN Outcome(reg2, media1, failed)
        ELSE Outcome(reg3, media1,
                     Response("create", 201,
                              [url |-> uploaded, day |-> day, priority |-> priority]))

\* POST /api/banners.  `uploaded` is the secure_url the Media Store returns
\* when the upload succeeds.  Remote calls: 1 upload, 2 hset, 3 zadd.
CreateHandler(reg, media, body, uploaded, fail) ==
    LET day == TargetDay(body.day)
        priority == TargetPriority(body.priority)
        failed == Response("create", 500, [error |-> "Falha ao fazer upload."])
        media1 == [assets |-> media.assets \cup {uploaded},
                   issued |-> media.issued \cup {uploaded}]
        reg2 == [reg EXCEPT !.hash = Hset(reg.hash, uploaded, day)]
        reg3 == [reg2 EXCEPT !.zset = Zadd(reg2.zset, priority.n, uploaded)]
    IN  IF ~body.file
        THEN Outcome(reg, media, Response("create", 400, [error |-> "Nenhum arquivo enviado."]))
        ELSE IF day \notin validDays
        THEN Outcome(reg, media, Response("create", 400, [error |-> "Dia invalido."]))
        ELSE IF BadPriority(priority)
        THEN Outcome(reg, media, Response("create", 400, [error |-> "Prioridade invalida."]))
        ELSE IF fail = 1 THEN Outcome(reg, media, failed)
        ELSE IF fail = 2 THEN Outcome(reg, media1, failed)
        ELSE IF fail = 3 THEN Outcome(reg2, media1, failed)
        ELSE Outcome(reg3, media1,
                     Response("create", 201,
                              [url |-> uploaded, day |-> day, priority |-> priority]))

\* The filter of GET /api/banners on a banner's day rule:
\* dayMap[url] && (dayMap[url] === 'ALL' || dayMap[url] === todayKey)
\* (ShownOn_EveryDay is its mutant that forgets the comparison with the day.)
ShownOn_EveryDay(day, todayKey) == day # <<>>
ShownOn(day, todayKey) == day # <<>> /\ (day = ALL \/ day = todayKey)

\* GET /api/banners: today's active URLs, greatest priority first.
\* Remote calls: 1 zrevrange, 2 hgetall.
ListTodayHandler(reg, media, today, order, fail) ==
    LET todayKey == DAYS_MAP[today]
        priorityBanners == getActiveBannersWithPriority(reg)
        activeBannersWithDay == getActiveBannersWithDay(reg, order)
        inDayMap(url) == url \in MapKeys(activeBannersWithDay)
        dayMap(url) == MapValue(activeBannersWithDay, url, "day")
        shown(banner) == inDayMap(banner.url) /\ ShownOn(dayMap(banner.url), todayKey)
        filtered == SelectSeq(priorityBanners, shown)
        filteredUrls == [i \in DOMAIN filtered |-> filtered[i].url]
    IN  IF fail \in {1, 2}
        THEN Outcome(reg, media,
                     Response("listToday", 500, [error |-> "Falha ao carregar banners ativos."]))
        ELSE Outcome(reg, media,
                     Response("listToday", 200, [banners |-> filteredUrls, day |-> todayKey]))

\* GET /api/banners/all: every active banner with day and priority.
\* Remote calls: 1 hgetall, 2 zrevrange.
ListAllHandler(reg, media, order, fail) ==
    LET activeBannersWithDay == getActiveBannersWithDay(reg, order)
        activeBannersWithPriority == getActiveBannersWithPriority(reg)
        inPriorityMap(url) == url \in MapKeys(activeBannersWithPriority)
        priorityMap(url) == MapValue(activeBannersWithPriority, url, "priority")
        combinedBanners ==
            [i \in DOMAIN activeBannersWithDay |->
                LET banner == activeBannersWithDay[i]
                IN  [url |-> banner.url,
                     day |-> banner.day,
                     priority |-> IF inPriorityMap(banner.url) THEN priorityMap(banner.url)
                                  ELSE Num(0)]]
    IN  IF fail \in {1, 2}
        THEN Outcome(reg, media,
                     Response("listAll", 500,
                              [error |-> "Falha ao carregar todos os banners ativos."]))
        ELSE Outcome(reg, media,
                     Response("listAll", 200, [banners |-> SortByPriorityDesc(combinedBanners)]))

\* GET /api/banners/disabled.  Remote call: 1 smembers.
ListDisabledHandler(reg, media, order, fail) ==
    IF fail = 1
    THEN Outcome(reg, media,
                 Response("listDisabled", 500,
                          [error |-> "Falha ao carregar banners desativados."]))
    ELSE Outcome(reg, media,
                 Response("listDisabled", 200, [banners |-> Smembers(reg.disabled, order)]))


\* PUT /api/banners/disable.
\* Remote calls: 1 hdel, 2 zrem, 3 sismember (not active) or sadd (active).
DisableHandler(reg, media, body, fail) ==
    LET url == body.url.s
        failed == Response("disable", 500, [error |-> "Falha ao desativar banner."])
        removedFromActiveDay == HdelCount(reg.hash, url)
        reg1 == [reg EXCEPT !.hash = Hdel(reg.hash, url)]
        removedFromPriority == ZremCount(reg1.zset, url)
        reg2 == [reg1 EXCEPT !.zset = Zrem(reg1.zset, url)]
        wasAlreadyDisabled == Sismember(reg2.disabled, url)
        reg3 == [reg2 EXCEPT !.disabled = Sadd(reg2.disabled, url)]
    IN  IF ~Truthy(body.url)
        THEN Outcome(reg, media,
                     Response("disable", 400, [error |-> "A URL do banner e obrigatoria."]))
        ELSE IF fail = 1 THEN Outcome(reg, media, failed)
        ELSE IF fail = 2 THEN Outcome(reg1, media, failed)
        ELSE IF fail = 3 THEN Outcome(reg2, media, failed)
        ELSE IF removedFromActiveDay = 0 /\ removedFromPriority = 0
        THEN IF wasAlreadyDisabled # 0
             THEN Outcome(reg2, media,
                          Response("disable", 404,
                                   [error |-> "Banner ja esta na lista de desativados."]))
             ELSE Outcome(reg2, media,
                          Response("disable", 404,
                                   [error |-> "Banner nao encontrado na lista de ativos."]))
        ELSE Outcome(reg3, media,
                     Response("disable", 200,
                              [message |-> "Banner desativado com sucesso.", url |-> url]))

\* PUT /api/banners/enable.
\* Remote calls: 1 srem, 2 hget (not disabled) or hset (disabled), 3 zadd.
EnableHandler(reg, media, body, fail) ==
    LET url == body.url.s
        targetDay == TargetDay(body.day)
        targetPriority == TargetPriority(body.priority)
        failed == Response("enable", 500, [error |-> "Falha ao reativar banner."])
        removedFromDisabled == SremCount(reg.disabled, url)
        reg1 == [reg EXCEPT !.disabled = Srem(reg.disabled, url)]
        wasAlreadyActive == Hget(reg1.hash, url)
        reg2 == [reg1 EXCEPT !.hash = Hset(reg1.hash, url, targetDay)]
        reg3 == [reg2 EXCEPT !.zset = Zadd(reg2.zset, targetPriority.n, url)]
    IN  IF DayThrows(body.day)
        THEN Outcome(reg, media,
                     NoResponse("enable", "TypeError: day.toUpperCase is not a function"))
        ELSE IF \/ ~Truthy(body.url)
                \/ targetDay \notin validDays
                \/ BadPriority(targetPriority)
        THEN Outcome(reg, media,
                     Response("enable", 400,
                              [error |-> "A URL do banner e obrigatoria, o dia e a prioridade devem ser validos."]))
        ELSE IF fail = 1 THEN Outcome(reg, media, failed)
        ELSE IF fail = 2 THEN Outcome(reg1, media, failed)
        ELSE IF removedFromDisabled = 0
        THEN IF Truthy(wasAlreadyActive)
             THEN Outcome(reg1, media,
                          Response("enable", 404, [error |-> "Banner ja esta ativo."]))
             ELSE Outcome(reg1, media,
                          Response("enable", 404,
                                   [error |-> "Banner nao encontrado na lista de desativados."]))
        ELSE IF fail = 3 THEN Outcome(reg2, media, failed)
        ELSE Outcome(reg3, media,
                     Response("enable", 200,
                              [message |-> "Banner reativado com sucesso.", url |-> url,
                               day |-> targetDay, priority |-> targetPriority]))

\* An update-day that looks the banner up before it validates the request:
\* what PUT /api/banners/update-day must not be.
UpdateDayHandler_LookupFirst(reg, media, body, fail) ==
    LET url == body.url.s
        targetDay == TargetDay(body.day)
        failed == Response("updateDay", 500, [error |-> "Falha ao atualizar o dia do banner."])
        currentDay == IF body.url.t = "string" THEN Hget(reg.hash, url) ELSE Undefined
        reg2 == [reg EXCEPT !.hash = Hset(reg.hash, url, targetDay)]
    IN  IF fail = 1 THEN Outcome(reg, media, failed)
        ELSE IF ~Truthy(currentDay)
        THEN Outcome(reg, media,
                     Response("updateDay", 404,
                              [error |-> "Banner nao encontrado na lista de ativos."]))
        ELSE IF DayThrows(body.day)
        THEN Outcome(reg, media,
                     NoResponse("updateDay", "TypeError: day.toUpperCase is not a function"))
        ELSE IF targetDay \notin validDays
        THEN Outcome(reg, media,
                     Response("updateDay", 400,
                              [error |-> "A URL do banner e obrigatoria e o dia deve ser valido."]))
        ELSE IF fail = 2 THEN Outcome(reg, media, failed)
        ELSE Outcome(reg2, media,
                     Response("updateDay", 200,
                              [message |-> "Dia de exibicao atualizado com sucesso.",
                               url |-> url, day |-> targetDay]))

\* PUT /api/banners/update-day.  Remote calls: 1 hget, 2 hset.
UpdateDayHandler(reg, media, body, fail) ==
    LET url == body.url.s
        targetDay == TargetDay(body.day)
        failed == Response("updateDay", 500, [error |-> "Falha ao atualizar o dia do banner."])
        currentDay == Hget(reg.hash, url)
        reg2 == [reg EXCEPT !.hash = Hset(reg.hash, url, targetDay)]
    IN  IF DayThrows(body.day)
        THEN Outcome(reg, media,
                     NoResponse("updateDay", "TypeError: day.toUpperCase is not a function"))
        ELSE IF ~Truthy(body.url) \/ targetDay \notin validDays
        THEN Outcome(reg, media,
                     Response("updateDay", 400,
                              [error |-> "A URL do banner e obrigatoria e o dia deve ser valido."]))
        ELSE IF fail = 1 THEN Outcome(reg, media, failed)
        ELSE IF ~Truthy(currentDay)
        THEN Outcome(reg, media,
                     Response("updateDay", 404,
                              [error |-> "Banner nao encontrado na lista de ativos."]))
        ELSE IF fail = 2 THEN Outcome(reg, media, failed)
        ELSE Outcome(reg2, media,
                     Response("updateDay", 200,
                              [message |-> "Dia de exibicao atualizado com sucesso.",
                               url |-> url, day |-> targetDay]))

\* The body of update-priority once targetPriority is computed; src/Server.js
\* and src/unnamed/part_001 differ only in that computation.
\* Remote calls: 1 hget, 2 zadd.
UpdatePriorityWith(reg, media, body, targetPriority, fail) ==
    LET url == body.url.s
        failed == Response("updatePriority", 500,
                           [error |-> "Falha ao atualizar a prioridade do banner."])
        currentDay == Hget(reg.hash, url)
        reg2 == [reg EXCEPT !.zset = Zadd(reg.zset, targetPriority.n, url)]
    IN  IF ~Truthy(body.url) \/ BadPriority(targetPriority)
        THEN Outcome(reg, media,
                     Response("updatePriority", 400,
                              [error |-> "A URL do banner e a prioridade (numero nao negativo) sao obrigatorias."]))
        ELSE IF fail = 1 THEN Outcome(reg, media, failed)
        ELSE IF ~Truthy(currentDay)
        THEN Outcome(reg, media,
                     Response("updatePriority", 404,
                              [error |-> "Banner nao encontrado na lista de ativos."]))
        ELSE IF fail = 2 THEN Outcome(reg, media, failed)
        ELSE Outcome(reg2, media,
                     Response("updatePriority", 200,
                              [message |-> "Prioridade de exibicao atualizada com sucesso.",
                               url |-> url, priority |-> targetPriority]))

\* PUT /api/banners/update-priority: targetPriority = parseInt(priority, 10)
UpdatePriorityHandler(reg, media, body, fail) ==
    UpdatePriorityWith(reg, media, body, ParseInt(body.priority), fail)

\* DELETE /api/banners.  `destroyResult` is the result the Media Store
\* reports when its destroy call returns.
\* Remote calls: 1 hdel, 2 zrem, 3 srem, 4 destroy.
DeleteHandler(reg, media, body, destroyResult, fail) ==
    LET url == body.url.s
        failed == Response("delete", 500, [error |-> "Falha ao excluir banner."])
        removedActiveDay == HdelCount(reg.hash, url)
        reg1 == [reg EXCEPT !.hash = Hdel(reg.hash, url)]
        removedPriority == ZremCount(reg1.zset, url)
        reg2 == [reg1 EXCEPT !.zset = Zrem(reg1.zset, url)]
        removedDisabled == SremCount(reg2.disabled, url)
        reg3 == [reg2 EXCEPT !.disabled = Srem(reg2.disabled, url)]
        redisRemoved == removedActiveDay + removedPriority + removedDisabled
        publicId == extractPublicIdFromUrl(body.url)
        media4 == IF destroyResult = "ok"
                  THEN [media EXCEPT !.assets = media.assets \ {url}]
                  ELSE media
    IN  IF ~Truthy(body.url)
        THEN Outcome(reg, media,
                     Response("delete", 400,
                              [error |-> "A URL do banner e obrigatoria para a exclusao."]))
        ELSE IF fail = 1 THEN Outcome(reg, media, failed)
        ELSE IF fail = 2 THEN Outcome(reg1, media, failed)
        ELSE IF fail = 3 THEN Outcome(reg2, media, failed)
        ELSE IF redisRemoved = 0
        THEN Outcome(reg3, media,
                     Response("delete", 404,
                              [error |-> "Banner nao encontrado nos registros do Redis."]))
        ELSE IF ~Truthy(publicId)
        THEN Outcome(reg3, media,
                     Response("delete", 200,
                              [message |-> "Banner removido do Redis, mas falhou ao extrair o ID para exclusao no Cloudinary.",
                               url |-> url, redisRemoved |-> redisRemoved]))
        ELSE IF fail = 4 THEN Outcome(reg3, media, failed)
        ELSE IF destroyResult = "not found"
        THEN Outcome(reg3, media4,
                     Response("delete", 200,
                              [message |-> "Banner excluido com sucesso.", url |-> url,
                               redisRemoved |-> redisRemoved, cloudinaryStatus |-> "ok"]))
        ELSE IF destroyResult # "ok"
        THEN Outcome(reg3, media4,
                     Response("delete", 200,
                              [message |-> "Banner removido do Redis, mas houve um erro na exclusao do Cloudinary.",
                               url |-> url, cloudinaryStatus |-> destroyResult]))
        ELSE Outcome(reg3, media4,
                     Response("delete", 200,
                              [message |-> "Banner excluido com sucesso.", url |-> url,
                               redisRemoved |-> redisRemoved, cloudinaryStatus |-> "ok"]))


-----------------------------------------------------------------------------
(* The handlers of src/unnamed/part_001 (priority version) whose code      *)
(* differs from src/Server.js in what it computes.  Its create, enable,    *)
(* update-day, delete and list-disabled handlers compute what the ones of  *)
(* src/Server.js compute.                                                  *)

\* GET /api/banners: filter by day, then sort by priority.
\* Remote calls: 1 hgetall, 2 zrange.
P1_ListTodayHandler(reg, media, today, order, fail) ==
    LET todayKey == DAYS_MAP[today]
        activeBanners == P1_getActiveBannersWithDay(reg, order)
        shown(banner) == banner.day = ALL \/ banner.day = todayKey
        filteredBanners == SortByPriorityDesc(SelectSeq(activeBanners, shown))
        filteredUrls == [i \in DOMAIN filteredBanners |-> filteredBanners[i].url]
    IN  IF fail \in {1, 2}
        THEN Outcome(reg, media,
                     Response("listToday", 500, [error |-> "Falha ao carregar banners ativos."]))
        ELSE Outcome(reg, media,
                     Response("listToday", 200, [banners |-> filteredUrls, day |-> todayKey]))

\* GET /api/banners/all: the combined list as getActiveBannersWithDay gives it.
P1_ListAllHandler(reg, media, order, fail) ==
    IF fail \in {1, 2}
    THEN Outcome(reg, media,
                 Response("listAll", 500,
                          [error |-> "Falha ao carregar todos os banners ativos."]))
    ELSE Outcome(reg, media,
                 Response("listAll", 200, [banners |-> P1_getActiveBannersWithDay(reg, order)]))

\* PUT /api/banners/disable: NotFound is decided by the hash alone.
\* Remote calls: 1 hdel, 2 zrem, 3 sismember (not active) or sadd (active).
P1_DisableHandler(reg, media, body, fail) ==
    LET url == body.url.s
        failed == Response("disable", 500, [error |-> "Falha ao desativar banner."])
        removedFromActive == HdelCount(reg.hash, url)
        reg1 == [reg EXCEPT !.hash = Hdel(reg.hash, url)]
        reg2 == [reg1 EXCEPT !.zset = Zrem(reg1.zset, url)]
        wasAlreadyDisabled == Sismember(reg2.disabled, url)
        reg3 == [reg2 EXCEPT !.disabled = Sadd(reg2.disabled, url)]
    IN  IF ~Truthy(body.url)
        THEN Outcome(reg, media,
                     Response("disable", 400, [error |-> "A URL do banner e obrigatoria."]))
        ELSE IF fail = 1 THEN Outcome(reg, media, failed)
        ELSE IF fail = 2 THEN Outcome(reg1, media, failed)
        ELSE IF fail = 3 THEN Outcome(reg2, media, failed)
        ELSE IF removedFromActive = 0
        THEN IF wasAlreadyDisabled # 0
             THEN Outcome(reg2, media,
                          Response("disable", 404,
                                   [error |-> "Banner ja esta na lista de desativados."]))
             ELSE Outcome(reg2, media,
                          Response("disable", 404,
                                   [error |-> "Banner nao encontrado na lista de ativos."]))
        ELSE Outcome(reg3, media,
                     Response("disable", 200,
                              [message |-> "Banner desativado com sucesso.", url |-> url]))

\* PUT /api/banners/update-priority:
\* targetPriority = priority ? parseInt(priority, 10) : 0
P1_UpdatePriorityHandler(reg, media, body, fail) ==
    UpdatePriorityWith(reg, media, body,
                       IF Truthy(body.priority) THEN ParseInt(body.priority) ELSE Num(0),
                       fail)

\* DELETE /api/banners: the disabled set is emptied of the URL before the
\* sorted set.  Remote calls: 1 hdel, 2 srem, 3 zrem, 4 destroy.
P1_DeleteHandler(reg, media, body, destroyResult, fail) ==
    LET url == body.url.s
        failed == Response("delete", 500, [error |-> "Falha ao excluir banner."])
        removedActive == HdelCount(reg.hash, url)
        reg1 == [reg EXCEPT !.hash = Hdel(reg.hash, url)]
        removedDisabled == SremCount(reg1.disabled, url)
        reg2 == [reg1 EXCEPT !.disabled = Srem(reg1.disabled, url)]
        removedPriority == ZremCount(reg2.zset, url)
        reg3 == [reg2 EXCEPT !.zset = Zrem(reg2.zset, url)]
        redisRemoved == removedActive + removedDisabled + removedPriority
        publicId == extractPublicIdFromUrl(body.url)
        media4 == IF destroyResult = "ok"
                  THEN [media EXCEPT !.assets = media.assets \ {url}]
                  ELSE media
    IN  IF ~Truthy(body.url)
        THEN Outcome(reg, media,
                     Response("delete", 400,
                              [error |-> "A URL do banner e obrigatoria para a exclusao."]))
        ELSE IF fail = 1 THEN Outcome(reg, media, failed)
        ELSE IF fail = 2 THEN Outcome(reg1, media, failed)
        ELSE IF fail = 3 THEN Outcome(reg2, media, failed)
        ELSE IF redisRemoved = 0
        THEN Outcome(reg3, media,
                     Response("delete", 404,
                              [error |-> "Banner nao encontrado nos registros do Redis."]))
        ELSE IF ~Truthy(publicId)
        THEN Outcome(reg3, media,
                     Response("delete", 200,
                              [message |-> "Banner removido do Redis, mas falhou ao extrair o ID para exclusao no Cloudinary.",
                               url |-> url, redisRemoved |-> redisRemoved]))
        ELSE IF fail = 4 THEN Outcome(reg3, media, failed)
        ELSE IF destroyResult \notin {"ok", "not found"}
        THEN Outcome(reg3, media4,
                     Response("delete", 200,
                              [message |-> "Banner removido do Redis, mas houve um erro na exclusao do Cloudinary.",
                               url |-> url, cloudinaryStatus |-> destroyResult]))
        ELSE Outcome(reg3, media4,
                     Response("delete", 200,
                              [message |-> "Banner excluido com sucesso.", url |-> url,
                               redisRemoved |-> redisRemoved, cloudinaryStatus |-> "ok"]))

-----------------------------------------------------------------------------
(* The handlers of src/unnamed/part_000 (day-only version): no sorted set, *)
(* no priority.  Its update-day and list-disabled handlers are those of    *)
(* src/Server.js.                                                          *)

\* POST /api/banners.  Remote calls: 1 upload, 2 hset.
P0_CreateHandler(reg, media, body, uploaded, fail) ==
    LET day == TargetDay(body.day)
        failed == Response("create", 500, [error |-> "Falha ao fazer upload."])
        media1 == [assets |-> media.assets \cup {uploaded},
                   issued |-> media.issued \cup {uploaded}]
        reg2 == [reg EXCEPT !.hash = Hset(reg.hash, uploaded, day)]
    IN  IF ~body.file
        THEN Outcome(reg, media, Response("create", 400, [error |-> "Nenhum arquivo enviado."]))
        ELSE IF day \notin validDays
        THEN Outcome(reg, media, Response("create", 400, [error |-> "Dia invalido."]))
        ELSE IF fail = 1 THEN Outcome(reg, media, failed)
        ELSE IF fail = 2 THEN Outcome(reg, media1, failed)
        ELSE Outcome(reg2, media1, Response("create", 201, [url |-> uploaded, day |-> day]))

\* GET /api/banners: the URLs of the hash whose day is ALL or today's, in
\* the order of the hash's fields.  Remote call: 1 hgetall.
P0_ListTodayHandler(reg, media, today, order, fail) ==
    LET todayKey == DAYS_MAP[today]
        activeBanners == getActiveBannersWithDay(reg, order)
        shown(banner) == banner.day = ALL \/ banner.day = todayKey
        filtered == SelectSeq(activeBanners, shown)
        filteredUrls == [i \in DOMAIN filtered |-> filtered[i].url]
    IN  IF fail = 1
        THEN Outcome(reg, media,
                     Response("listToday", 500, [error |-> "Falha ao carregar banners ativos."]))
        ELSE Outcome(reg, media,
                     Response("listToday", 200, [banners |-> filteredUrls, day |-> todayKey]))

\* GET /api/banners/all: [{url, day}].  Remote call: 1 hgetall.
P0_ListAllHandler(reg, media, order, fail) ==
    IF fail = 1
    THEN Outcome(reg, media,
                 Response("listAll", 500,
                          [error |-> "Falha ao carregar todos os banners ativos."]))
    ELSE Outcome(reg, media,
                 Response("listAll", 200, [banners |-> getActiveBannersWithDay(reg, order)]))

\* PUT /api/banners/disable.
\* Remote calls: 1 hdel, 2 sismember (not active) or sadd (active).
P0_DisableHandler(reg, media, body, fail) ==
    LET url == body.url.s
        failed == Response("disable", 500, [error |-> "Falha ao desativar banner."])
        removedFromActive == HdelCount(reg.hash, url)
        reg1 == [reg EXCEPT !.hash = Hdel(reg.hash, url)]
        wasAlreadyDisabled == Sismember(reg1.disabled, url)
        reg2 == [reg1 EXCEPT !.disabled = Sadd(reg1.disabled, url)]
    IN  IF ~Truthy(body.url)
        THEN Outcome(reg, media,
                     Response("disable", 400, [error |-> "A URL do banner e obrigatoria."]))
        ELSE IF fail = 1 THEN Outcome(reg, media, failed)
        ELSE IF fail = 2 THEN Outcome(reg1, media, failed)
        ELSE IF removedFromActive = 0
        THEN IF wasAlreadyDisabled # 0
             THEN Outcome(reg1, media,
                          Response("disable", 404,
                                   [error |-> "Banner ja esta na lista de desativados."]))
             ELSE Outcome(reg1, media,
                          Response("disable", 404,
                                   [error |-> "Banner nao encontrado na lista de ativos."]))
        ELSE Outcome(reg2, media,
                     Response("disable", 200,
                              [message |-> "Banner desativado com sucesso.", url |-> url]))

\* PUT /api/banners/enable.
\* Remote calls: 1 srem, 2 hget (not disabled) or hset (disabled).
P0_EnableHandler(reg, media, body, fail) ==
    LET url == body.url.s
        targetDay == TargetDay(body.day)
        failed == Response("enable", 500, [error |-> "Falha ao reativar banner."])
        removedFromDisabled == SremCount(reg.disabled, url)
        reg1 == [reg EXCEPT !.disabled = Srem(reg.disabled, url)]
        wasAlreadyActive == Hget(reg1.hash, url)
        reg2 == [reg1 EXCEPT !.hash = Hset(reg1.hash, url, targetDay)]
    IN  IF DayThrows(body.day)
        THEN Outcome(reg, media,
                     NoResponse("enable", "TypeError: day.toUpperCase is not a function"))
        ELSE IF ~Truthy(body.url) \/ targetDay \notin validDays
        THEN Outcome(reg, media,
                     Response("enable", 400,
                              [error |-> "A URL do banner e obrigatoria e o dia deve ser valido."]))
        ELSE IF fail = 1 THEN Outcome(reg, media, failed)
        ELSE IF fail = 2 THEN Outcome(reg1, media, failed)
        ELSE IF removedFromDisabled = 0
        THEN IF Truthy(wasAlreadyActive)
             THEN Outcome(reg1, media,
                          Response("enable", 404, [error |-> "Banner ja esta ativo."]))
             ELSE Outcome(reg1, media,
                          Response("enable", 404,
                                   [error |-> "Banner nao encontrado na lista de desativados."]))
        ELSE Outcome(reg2, media,
                     Response("enable", 200,
                              [message |-> "Banner reativado com sucesso.", url |-> url,
                               day |-> targetDay]))

\* DELETE /api/banners.  Remote calls, numbered as those of src/Server.js:
\* 1 hdel, 3 srem, 4 destroy (there is no zrem).
P0_DeleteHandler(reg, media, body, destroyResult, fail) ==
    LET url == body.url.s
        failed == Response("delete", 500, [error |-> "Falha ao excluir banner."])
        removedActive == HdelCount(reg.hash, url)
        reg1 == [reg EXCEPT !.hash = Hdel(reg.hash, url)]
        removedDisabled == SremCount(reg1.disabled, url)
        reg3 == [reg1 EXCEPT !.disabled = Srem(reg1.disabled, url)]
        redisRemoved == removedActive + removedDisabled
        publicId == extractPublicIdFromUrl(body.url)
        media4 == IF destroyResult = "ok"
                  THEN [media EXCEPT !.assets = media.assets \ {url}]
                  ELSE media
    IN  IF ~Truthy(body.url)
        THEN Outcome(reg, media,
                     Response("delete", 400,
                              [error |-> "A URL do banner e obrigatoria para a exclusao."]))
        ELSE IF fail = 1 THEN Outcome(reg, media, failed)
        ELSE IF fail = 3 THEN Outcome(reg1, media, failed)
        ELSE IF redisRemoved = 0
        THEN Outcome(reg3, media,
                     Response("delete", 404,
                              [error |-> "Banner nao encontrado nos registros do Redis."]))
        ELSE IF ~Truthy(publicId)
        THEN Outcome(reg3, media,
                     Response("delete", 200,
                              [message |-> "Banner removido do Redis, mas falhou ao extrair o ID para exclusao no Cloudinary.",
                               url |-> url, redisRemoved |-> redisRemoved]))
        ELSE IF fail = 4 THEN Outcome(reg3, media, failed)
        ELSE IF destroyResult = "not found"
        THEN Outcome(reg3, media4,
                     Response("delete", 200,
                              [message |-> "Banner excluido com sucesso.", url |-> url,
                               redisRemoved |-> redisRemoved, cloudinaryStatus |-> "ok"]))
        ELSE IF destroyResult # "ok"
        THEN Outcome(reg3, media4,
                     Response("delete", 200,
                              [message |-> "Banner removido do Redis, mas houve um erro na exclusao do Cloudinary.",
                               url |-> url, cloudinaryStatus |-> destroyResult]))
        ELSE Outcome(reg3, media4,
                     Response("delete", 200,
                              [message |-> "Banner excluido com sucesso.", url |-> url,
                               redisRemoved |-> redisRemoved, cloudinaryStatus |-> "ok"]))

-----------------------------------------------------------------------------
(* Requests.                                                               *)

mon == <<"m","o","n">>
MON == DAYS_MAP[1]

\* The day field of a multipart form (always text when present) and of a
\* JSON body (any JSON value).
FormDays == {Undefined, Str(MON), Str(mon), Str(<<"x">>)}
JsonDays == {Undefined, Str(MON), Str(<<"x">>), Num(1)}

\* The priority field of a multipart form (text) and of a JSON body (a
\* number, or text).
FormPriorities ==
    {Str(NumToChars(n)) : n \in 0..MaxPriority}
        \cup {Undefined, Str(<<"-","1">>), Str(<<"a">>), Str(<<"1","a">>)}
JsonPriorities ==
    {Num(n) : n \in 0..MaxPriority}
        \cup {Undefined, Num(-1), Str(<<"a">>), Str(<<"1","a">>)}

\* The url field of a JSON body: missing, or any URL of the Media Store,
\* registered or not.
JsonUrls == {Undefined} \cup {Str(u) : u \in Urls}

DestroyResults == {"ok", "not found", "error"}

-----------------------------------------------------------------------------
(* The state machine: one request at a time, each handler run to its       *)
(* response.                                                               *)

\* The handlers that can be running at once, and a handler that is not.
Slots == {1, 2}
Idle == [op |-> "idle"]

\* No request answered yet; no call of extractPublicIdFromUrl under watch.
NoAnswer == [op |-> "none", status |-> 0, url |-> <<>>]
NoProbe == [url |-> [t |-> "undefined"], publicId |-> [t |-> "none"]]

InitOf(files) ==
    /\ variant \in files
    /\ inflight = [slot \in Slots |-> Idle]
    /\ disturbed = {}
    /\ answers = [slot \in Slots |-> NoAnswer]
    /\ probe = NoProbe
    /\ statusStore = EmptyMap
    /\ lastAccepted = EmptyMap
    /\ activeHash = EmptyMap
    /\ priorityZset = EmptyMap
    /\ disabledSet = {}
    /\ assets = {}
    /\ issued = {}
    /\ resp = Response("none", 0, [none |-> TRUE])

\* src/Server.js alone; src/Server.js or the priority version; src/Server.js
\* or the day-only version.
Init == InitOf({"Server"})
InitVariants == InitOf({"Server", "Part001"})
InitWithDayOnly == InitOf({"Server", "Part000"})

\* The state after a handler has run to its response.
Apply(outcome) ==
    \E out \in {outcome} :
        /\ activeHash' = out.reg.hash
        /\ priorityZset' = out.reg.zset
        /\ disabledSet' = out.reg.disabled
        /\ assets' = out.media.assets
        /\ issued' = out.media.issued
        /\ resp' = out.resp
        /\ UNCHANGED <<variant, inflight, disturbed, answers, probe, statusStore, lastAccepted>>

\* POST /api/banners; the upload succeeds or throws.
CreateOutcome(file, day, priority, uploaded, fail) ==
    IF variant = "Part000"
    THEN P0_CreateHandler(Registry, Media,
                          [file |-> file, day |-> day, priority |-> priority], uploaded, fail)
    ELSE CreateHandler(Registry, Media,
                       [file |-> file, day |-> day, priority |-> priority], uploaded, fail)

Create(file, day, priority, uploaded, fail) ==
    Apply(CreateOutcome(file, day, priority, uploaded, fail))

\* Without a file the handler answers before it reads another field or
\* calls the Media Store, so one request stands for all of them.
CreateReq ==
    \E uploaded \in Urls \ issued :
        \/ Create(FALSE, Undefined, Undefined, uploaded, 0)
        \/ \E day \in FormDays, priority \in FormPriorities, fail \in {0, 1} :
               Create(TRUE, day, priority, uploaded, fail)

ListTodayOutcome(today, order) ==
    IF variant = "Server"
    THEN ListTodayHandler(Registry, Media, today, order, 0)
    ELSE IF variant = "Part001"
    THEN P1_ListTodayHandler(Registry, Media, today, order, 0)
    ELSE P0_ListTodayHandler(Registry, Media, today, order, 0)

ListToday(today, order) == Apply(ListTodayOutcome(today, order))

ListTodayReq ==
    \E today \in DOMAIN DAYS_MAP, order \in Orders(DOMAIN activeHash) : ListToday(today, order)

ListAllOutcome(order) ==
    IF variant = "Server"
    THEN ListAllHandler(Registry, Media, order, 0)
    ELSE IF variant = "Part001"
    THEN P1_ListAllHandler(Registry, Media, order, 0)
    ELSE P0_ListAllHandler(Registry, Media, order, 0)

ListAll(order) == Apply(ListAllOutcome(order))

ListAllReq == \E order \in Orders(DOMAIN activeHash) : ListAll(order)

ListDisabledOutcome(order) == ListDisabledHandler(Registry, Media, order, 0)

ListDisabled(order) == Apply(ListDisabledOutcome(order))

ListDisabledReq == \E order \in Orders(disabledSet) : ListDisabled(order)

\* PUT /api/banners/disable of the file in use, run on a given registry.
DisableOn(reg, media, url) ==
    IF variant = "Server"
    THEN DisableHandler(reg, media, [url |-> url], 0)
    ELSE IF variant = "Part001"
    THEN P1_DisableHandler(reg, media, [url |-> url], 0)
    ELSE P0_DisableHandler(reg, media, [url |-> url], 0)

DisableOutcome(url) == DisableOn(Registry, Media, url)

Disable(url) == Apply(DisableOutcome(url))

DisableReq == \E url \in JsonUrls : Disable(url)

\* PUT /api/banners/enable of the file in use, run on a given registry.
EnableOn(reg, media, url, day, priority) ==
    IF variant = "Part000"
    THEN P0_EnableHandler(reg, media, [url |-> url, day |-> day, priority |-> priority], 0)
    ELSE EnableHandler(reg, media, [url |-> url, day |-> day, priority |-> priority], 0)

EnableOutcome(url, day, priority) == EnableOn(Registry, Media, url, day, priority)

Enable(url, day, priority) == Apply(EnableOutcome(url, day, priority))

EnableReq ==
    \E url \in JsonUrls, day \in JsonDays, priority \in JsonPriorities :
        Enable(url, day, priority)

UpdateDayOutcome(url, day) ==
    UpdateDayHandler(Registry, Media, [url |-> url, day |-> day], 0)

UpdateDay(url, day) == Apply(UpdateDayOutcome(url, day))

UpdateDayReq == \E url \in JsonUrls, day \in JsonDays : UpdateDay(url, day)

UpdatePriorityOutcome(url, priority) ==
    IF variant = "Server"
    THEN UpdatePriorityHandler(Registry, Media, [url |-> url, priority |-> priority], 0)
    ELSE P1_UpdatePriorityHandler(Registry, Media, [url |-> url, priority |-> priority], 0)

UpdatePriority(url, priority) == Apply(UpdatePriorityOutcome(url, priority))

\* src/unnamed/part_000 has no update-priority route.
UpdatePriorityReq ==
    /\ variant # "Part000"
    /\ \E url \in JsonUrls, priority \in JsonPriorities : UpdatePriority(url, priority)

\* DELETE /api/banners; the destroy call returns a result or throws.
DeleteOn(reg, media, url, destroyResult, fail) ==
    IF variant = "Part000"
    THEN P0_DeleteHandler(reg, media, [url |-> url], destroyResult, fail)
    ELSE IF variant = "Part001"
    THEN P1_DeleteHandler(reg, media, [url |-> url], destroyResult, fail)
    ELSE DeleteHandler(reg, media, [url |-> url], destroyResult, fail)

DeleteOutcome(url, destroyResult, fail) == DeleteOn(Registry, Media, url, destroyResult, fail)

Delete(url, destroyResult, fail) == Apply(DeleteOutcome(url, destroyResult, fail))

DeleteReq ==
    \E url \in JsonUrls :
        \/ \E destroyResult \in DestroyResults : Delete(url, destroyResult, 0)
        \/ Delete(url, "thrown", 4)

Next ==
    \/ CreateReq
    \/ ListTodayReq
    \/ ListAllReq
    \/ ListDisabledReq
    \/ DisableReq
    \/ EnableReq
    \/ UpdateDayReq
    \/ UpdatePriorityReq
    \/ DeleteReq

Spec == Init /\ [][Next]_vars

SpecVariants == InitVariants /\ [][Next]_vars

SpecWithDayOnly == InitWithDayOnly /\ [][Next]_vars

-----------------------------------------------------------------------------
(* The handlers of src/Server.js that write to the registry, answering     *)
(* only requests whose fields pass their validation: a URL of the Media    *)
(* Store, a day of the enum or none, a priority >= 0 or none.  The list    *)
(* requests and the rejected requests of Next change nothing in the        *)
(* registry, so the registries reached are the same; what the lists answer *)
(* on them is computed by AllListOn, TodayListOn and DisabledListOn.       *)

WellFormedCreateReq ==
    \E uploaded \in Urls \ issued, day \in {Undefined, Str(MON)},
       priority \in {Undefined} \cup {Str(NumToChars(n)) : n \in 0..MaxPriority} :
        Create(TRUE, day, priority, uploaded, 0)

WellFormedDisableReq == \E u \in Urls : Disable(Str(u))

WellFormedEnableReq ==
    \E u \in Urls, day \in {Undefined, Str(MON)},
       priority \in {Undefined} \cup {Num(n) : n \in 0..MaxPriority} :
        Enable(Str(u), day, priority)

WellFormedUpdateDayReq == \E u \in Urls, day \in {Str(ALL), Str(MON)} : UpdateDay(Str(u), day)

WellFormedUpdatePriorityReq ==
    \E u \in Urls, n \in 0..MaxPriority : UpdatePriority(Str(u), Num(n))

WellFormedDeleteReq ==
    \E u \in Urls :
        \/ \E destroyResult \in DestroyResults : Delete(Str(u), destroyResult, 0)
        \/ Delete(Str(u), "thrown", 4)

NextWellFormed ==
    \/ WellFormedCreateReq
    \/ WellFormedDisableReq
    \/ WellFormedEnableReq
    \/ WellFormedUpdateDayReq
    \/ WellFormedUpdatePriorityReq
    \/ WellFormedDeleteReq

SpecWellFormed == Init /\ [][NextWellFormed]_vars

-----------------------------------------------------------------------------
(* The handlers of disable, enable and update-day of src/Server.js run one *)
(* store call at a time, so that the calls of two requests interleave and  *)
(* any call can throw.  A request enters here once its body has passed the *)
(* validation that precedes the try block; req.pc is the store call it     *)
(* issues next and req.r1 the reply it keeps from an earlier one.          *)

\* A request of a running handler, about to issue its first store call.
Request(op, url, day) == [op |-> op, url |-> url, day |-> day, pc |-> 1, r1 |-> 0]

\* What one store call leaves behind: the registry, the request (Idle once
\* it is answered) and the response, if any.
StepResult(reg, req, response) == [reg |-> reg, req |-> req, resp |-> response]
Answered(reg, response) == StepResult(reg, Idle, response)
Continues(reg, req) == StepResult(reg, req, [op |-> "pending"])

\* PUT /api/banners/disable: 1 hdel, 2 zrem, then 3 sismember or 4 sadd.
DisableStep(reg, req) ==
    CASE req.pc = 1 ->
            Continues([reg EXCEPT !.hash = Hdel(reg.hash, req.url)],
                      [req EXCEPT !.pc = 2, !.r1 = HdelCount(reg.hash, req.url)])
      [] req.pc = 2 ->
            Continues([reg EXCEPT !.zset = Zrem(reg.zset, req.url)],
                      [req EXCEPT !.pc = IF req.r1 = 0 /\ ZremCount(reg.zset, req.url) = 0
                                         THEN 3 ELSE 4])
      [] req.pc = 3 ->
            Answered(reg,
                     Response("disable", 404,
                              IF Sismember(reg.disabled, req.url) # 0
                              THEN [error |-> "Banner ja esta na lista de desativados."]
                              ELSE [error |-> "Banner nao encontrado na lista de ativos."]))
      [] req.pc = 4 ->
            Answered([reg EXCEPT !.disabled = Sadd(reg.disabled, req.url)],
                     Response("disable", 200,
                              [message |-> "Banner desativado com sucesso.", url |-> req.url]))

\* PUT /api/banners/enable with the default priority: 1 srem, then 2 hget,
\* or 3 hset and 4 zadd.
EnableStep(reg, req) ==
    CASE req.pc = 1 ->
            Continues([reg EXCEPT !.disabled = Srem(reg.disabled, req.url)],
                      [req EXCEPT !.pc = IF SremCount(reg.disabled, req.url) = 0
                                         THEN 2 ELSE 3])
      [] req.pc = 2 ->
            Answered(reg,
                     Response("enable", 404,
                              IF Truthy(Hget(reg.hash, req.url))
                              THEN [error |-> "Banner ja esta ativo."]
                              ELSE [error |-> "Banner nao encontrado na lista de desativados."]))
      [] req.pc = 3 ->
            Continues([reg EXCEPT !.hash = Hset(reg.hash, req.url, req.day)],
                      [req EXCEPT !.pc = 4])
      [] req.pc = 4 ->
            Answered([reg EXCEPT !.zset = Zadd(reg.zset, 0, req.url)],
                     Response("enable", 200,
                              [message |-> "Banner reativado com sucesso.", url |-> req.url,
                               day |-> req.day, priority |-> Num(0)]))

\* PUT /api/banners/update-day: 1 hget, 2 hset.
UpdateDayStep(reg, req) ==
    CASE req.pc = 1 ->
            IF Truthy(Hget(reg.hash, req.url))
            THEN Continues(reg, [req EXCEPT !.pc = 2])
            ELSE Answered(reg,
                          Response("updateDay", 404,
                                   [error |-> "Banner nao encontrado na lista de ativos."]))
      [] req.pc = 2 ->
            Answered([reg EXCEPT !.hash = Hset(reg.hash, req.url, req.day)],
                     Response("updateDay", 200,
                              [message |-> "Dia de exibicao atualizado com sucesso.",
                               url |-> req.url, day |-> req.day]))

\* The catch block of the handler.
CaughtResponse(req) ==
    Response(req.op, 500,
             CASE req.op = "disable" -> [error |-> "Falha ao desativar banner."]
               [] req.op = "enable" -> [error |-> "Falha ao reativar banner."]
               [] req.op = "updateDay" -> [error |-> "Falha ao atualizar o dia do banner."])

\* A handler starts.  The second slot is taken only while the first is.
Begin(slot, op, url, day) ==
    /\ inflight[slot] = Idle
    /\ slot = 2 => inflight[1] # Idle
    /\ inflight' = [inflight EXCEPT ![slot] = Request(op, url, day)]
    /\ disturbed' = IF \E other \in Slots \ {slot} :
                          inflight[other] # Idle /\ inflight[other].url = url
                     THEN disturbed \cup {url}
                     ELSE disturbed
    /\ UNCHANGED <<variant, activeHash, priorityZset, disabledSet, assets, issued, resp>>
    /\ UNCHANGED <<answers, probe, statusStore, lastAccepted>>

BeginReq ==
    \E slot \in Slots, url \in issued :
        \/ Begin(slot, "disable", url, ALL)
        \/ Begin(slot, "enable", url, ALL)
        \/ Begin(slot, "updateDay", url, MON)

\* The next store call of a running handler returns.
StoreCall(slot) ==
    /\ inflight[slot] # Idle
    /\ \E out \in {CASE inflight[slot].op = "disable" -> DisableStep(Registry, inflight[slot])
                     [] inflight[slot].op = "enable" -> EnableStep(Registry, inflight[slot])
                     [] inflight[slot].op = "updateDay" -> UpdateDayStep(Registry, inflight[slot])} :
          /\ activeHash' = out.reg.hash
          /\ priorityZset' = out.reg.zset
          /\ disabledSet' = out.reg.disabled
          /\ inflight' = [inflight EXCEPT ![slot] = out.req]
          /\ resp' = IF out.req = Idle THEN out.resp ELSE resp
    /\ UNCHANGED <<variant, assets, issued, disturbed>>
    /\ UNCHANGED <<answers, probe, statusStore, lastAccepted>>

StoreCallReq == \E slot \in Slots : StoreCall(slot)

\* The next store call of a running handler throws.
StoreCallThrows(slot) ==
    /\ inflight[slot] # Idle
    /\ inflight' = [inflight EXCEPT ![slot] = Idle]
    /\ resp' = CaughtResponse(inflight[slot])
    /\ disturbed' = disturbed \cup {inflight[slot].url}
    /\ UNCHANGED <<variant, activeHash, priorityZset, disabledSet, assets, issued>>
    /\ UNCHANGED <<answers, probe, statusStore, lastAccepted>>

StoreCallThrowsReq == \E slot \in Slots : StoreCallThrows(slot)

\* A banner is created with the defaults, in one piece; two banners are
\* enough for the requests above to meet on one and to be cut on another.
CreateDefaultReq ==
    /\ Cardinality(issued) < 2
    /\ \E uploaded \in Urls \ issued : Create(TRUE, Undefined, Undefined, uploaded, 0)

NextStoreCalls ==
    \/ CreateDefaultReq
    \/ BeginReq
    \/ StoreCallReq
    \/ StoreCallThrowsReq

SpecStoreCalls == Init /\ [][NextStoreCalls]_vars

-----------------------------------------------------------------------------
(* Races on one banner.  The handlers of disable, enable, update-day,      *)
(* update-priority and delete run one store call at a time, two at once,   *)
(* every call succeeding, and each handler's answer is kept.               *)

\* PUT /api/banners/disable of src/unnamed/part_001, which looks at the
\* reply of hdel alone: 1 hdel, 2 zrem, then 3 sismember or 4 sadd.
P1_DisableStep(reg, req) ==
    CASE req.pc = 1 ->
            Continues([reg EXCEPT !.hash = Hdel(reg.hash, req.url)],
                      [req EXCEPT !.pc = 2, !.r1 = HdelCount(reg.hash, req.url)])
      [] req.pc = 2 ->
            Continues([reg EXCEPT !.zset = Zrem(reg.zset, req.url)],
                      [req EXCEPT !.pc = IF req.r1 = 0 THEN 3 ELSE 4])
      [] req.pc = 3 ->
            Answered(reg,
                     Response("disable", 404,
                              IF Sismember(reg.disabled, req.url) # 0
                              THEN [error |-> "Banner ja esta na lista de desativados."]
                              ELSE [error |-> "Banner nao encontrado na lista de ativos."]))
      [] req.pc = 4 ->
            Answered([reg EXCEPT !.disabled = Sadd(reg.disabled, req.url)],
                     Response("disable", 200,
                              [message |-> "Banner desativado com sucesso.", url |-> req.url]))

\* PUT /api/banners/update-priority with priority MaxPriority: 1 hget, 2 zadd.
UpdatePriorityStep(reg, req) ==
    CASE req.pc = 1 ->
            IF Truthy(Hget(reg.hash, req.url))
            THEN Continues(reg, [req EXCEPT !.pc = 2])
            ELSE Answered(reg,
                          Response("updatePriority", 404,
                                   [error |-> "Banner nao encontrado na lista de ativos."]))
      [] req.pc = 2 ->
            Answered([reg EXCEPT !.zset = Zadd(reg.zset, MaxPriority, req.url)],
                     Response("updatePriority", 200,
                              [message |-> "Prioridade de exibicao atualizada com sucesso.",
                               url |-> req.url, priority |-> Num(MaxPriority)]))

\* DELETE /api/banners: 1 hdel, 2 zrem, 3 srem, then 4 destroy when a field
\* or member was removed and the public id can be derived.  req.r1 adds up
\* the replies.
DeleteStep(reg, req, destroyResult) ==
    CASE req.pc = 1 ->
            Continues([reg EXCEPT !.hash = Hdel(reg.hash, req.url)],
                      [req EXCEPT !.pc = 2, !.r1 = HdelCount(reg.hash, req.url)])
      [] req.pc = 2 ->
            Continues([reg EXCEPT !.zset = Zrem(reg.zset, req.url)],
                      [req EXCEPT !.pc = 3, !.r1 = req.r1 + ZremCount(reg.zset, req.url)])
      [] req.pc = 3 ->
            LET reg3 == [reg EXCEPT !.disabled = Srem(reg.disabled, req.url)]
                redisRemoved == req.r1 + SremCount(reg.disabled, req.url)
            IN  IF redisRemoved = 0
                THEN Answered(reg3,
                              Response("delete", 404,
                                       [error |-> "Banner nao encontrado nos registros do Redis."]))
                ELSE IF ~Truthy(extractPublicIdFromUrl(Str(req.url)))
                THEN Answered(reg3,
                              Response("delete", 200,
                                       [message |-> "Banner removido do Redis, mas falhou ao extrair o ID para exclusao no Cloudinary.",
                                        url |-> req.url, redisRemoved |-> redisRemoved]))
                ELSE Continues(reg3, [req EXCEPT !.pc = 4, !.r1 = redisRemoved])
      [] req.pc = 4 ->
            IF destroyResult \notin {"ok", "not found"}
            THEN Answered(reg,
                          Response("delete", 200,
                                   [message |-> "Banner removido do Redis, mas houve um erro na exclusao do Cloudinary.",
                                    url |-> req.url, cloudinaryStatus |-> destroyResult]))
            ELSE Answered(reg,
                          Response("delete", 200,
                                   [message |-> "Banner excluido com sucesso.", url |-> req.url,
                                    redisRemoved |-> req.r1, cloudinaryStatus |-> "ok"]))

\* The call the handler is about to issue is cloudinary.uploader.destroy.
AtDestroy(req) == req # Idle /\ req.op = "delete" /\ req.pc = 4

\* The next call of the handler of the file in use.
RaceStep(reg, req, destroyResult) ==
    CASE req.op = "disable" ->
            IF variant = "Part001" THEN P1_DisableStep(reg, req) ELSE DisableStep(reg, req)
      [] req.op = "enable" -> EnableStep(reg, req)
      [] req.op = "updateDay" -> UpdateDayStep(reg, req)
      [] req.op = "updatePriority" -> UpdatePriorityStep(reg, req)
      [] req.op = "delete" -> DeleteStep(reg, req, destroyResult)

\* The next call of a running handler returns; its answer, if this was its
\* last call, is kept for the handler.
RaceCall(slot) ==
    /\ inflight[slot] # Idle
    /\ \E destroyResult \in IF AtDestroy(inflight[slot]) THEN DestroyResults ELSE {"none"} :
         \E out \in {RaceStep(Registry, inflight[slot], destroyResult)} :
            /\ activeHash' = out.reg.hash
            /\ priorityZset' = out.reg.zset
            /\ disabledSet' = out.reg.disabled
            /\ assets' = IF AtDestroy(inflight[slot]) /\ destroyResult = "ok"
                          THEN assets \ {inflight[slot].url}
                          ELSE assets
            /\ inflight' = [inflight EXCEPT ![slot] = out.req]
            /\ resp' = IF out.req = Idle THEN out.resp ELSE resp
            /\ answers' = IF out.req = Idle
                           THEN [answers EXCEPT ![slot] =
                                    [op |-> out.resp.op, status |-> out.resp.status,
                                     url |-> inflight[slot].url]]
                           ELSE answers
    /\ UNCHANGED <<variant, issued, disturbed, probe, statusStore, lastAccepted>>

RaceCallReq == \E slot \in Slots : RaceCall(slot)

\* A handler starts on the banner.
RaceBegin(slot, op, url) ==
    /\ inflight[slot] = Idle
    /\ inflight' = [inflight EXCEPT ![slot] = Request(op, url, MON)]
    /\ UNCHANGED <<variant, activeHash, priorityZset, disabledSet, assets, issued, resp>>
    /\ UNCHANGED <<disturbed, answers, probe, statusStore, lastAccepted>>

RaceBeginReq ==
    \E slot \in Slots, url \in issued,
       op \in {"disable", "enable", "updateDay", "updatePriority", "delete"} :
        RaceBegin(slot, op, url)

\* The banner is created with the defaults, in one piece.
CreateOneReq ==
    /\ issued = {}
    /\ \E uploaded \in Urls : Create(TRUE, Undefined, Undefined, uploaded, 0)

NextRaces ==
    \/ CreateOneReq
    \/ RaceBeginReq
    \/ RaceCallReq

SpecRaces == Init /\ [][NextRaces]_vars

-----------------------------------------------------------------------------
(* Two disable requests for the same active banner, started together, in   *)
(* src/Server.js and in src/unnamed/part_001; between two such pairs the   *)
(* banner is enabled again, in one piece.                                  *)

BeginTwoDisables ==
    /\ \A slot \in Slots : inflight[slot] = Idle
    /\ \E url \in DOMAIN activeHash :
          inflight' = [slot \in Slots |-> Request("disable", url, ALL)]
    /\ answers' = [slot \in Slots |-> NoAnswer]
    /\ UNCHANGED <<variant, activeHash, priorityZset, disabledSet, assets, issued, resp>>
    /\ UNCHANGED <<disturbed, probe, statusStore, lastAccepted>>

EnableAgainReq ==
    /\ \A slot \in Slots : inflight[slot] = Idle
    /\ \E url \in disabledSet, day \in {Undefined, Str(MON)},
          priority \in {Undefined, Num(MaxPriority)} :
          Enable(Str(url), day, priority)

NextTwoDisables ==
    \/ CreateOneReq
    \/ BeginTwoDisables
    \/ RaceCallReq
    \/ EnableAgainReq

SpecTwoDisables == InitVariants /\ [][NextTwoDisables]_vars

-----------------------------------------------------------------------------
(* Requests run one at a time, one remote call of a request able to throw  *)
(* (`fail` is its number), in src/Server.js and src/unnamed/part_001.  The *)
(* request then ends in its catch block with what the earlier calls wrote. *)

FailingCreateReq ==
    \E uploaded \in Urls \ issued, day \in {Undefined, Str(MON)},
       priority \in {Undefined, Str(NumToChars(MaxPriority))}, fail \in 0..3 :
        Create(TRUE, day, priority, uploaded, fail)

DisableFailing(url, fail) ==
    IF variant = "Part001"
    THEN P1_DisableHandler(Registry, Media, [url |-> url], fail)
    ELSE DisableHandler(Registry, Media, [url |-> url], fail)

FailingDisableReq == \E u \in Urls, fail \in 0..3 : Apply(DisableFailing(Str(u), fail))

EnableFailing(url, day, priority, fail) ==
    EnableHandler(Registry, Media, [url |-> url, day |-> day, priority |-> priority], fail)

FailingEnableReq ==
    \E u \in Urls, priority \in {Undefined, Num(MaxPriority)}, fail \in 0..3 :
        Apply(EnableFailing(Str(u), Undefined, priority, fail))

UpdateDayFailing(url, day, fail) ==
    UpdateDayHandler(Registry, Media, [url |-> url, day |-> day], fail)

FailingUpdateDayReq ==
    \E u \in Urls, fail \in 0..2 : Apply(UpdateDayFailing(Str(u), Str(MON), fail))

UpdatePriorityFailing(url, priority, fail) ==
    IF variant = "Part001"
    THEN P1_UpdatePriorityHandler(Registry, Media, [url |-> url, priority |-> priority], fail)
    ELSE UpdatePriorityHandler(Registry, Media, [url |-> url, priority |-> priority], fail)

FailingUpdatePriorityReq ==
    \E u \in Urls, fail \in 0..2 : Apply(UpdatePriorityFailing(Str(u), Num(MaxPriority), fail))

FailingDeleteReq ==
    \E url \in JsonUrls, destroyResult \in DestroyResults, fail \in 0..4 :
        Delete(url, destroyResult, fail)

NextFailures ==
    \/ FailingCreateReq
    \/ FailingDisableReq
    \/ FailingEnableReq
    \/ FailingUpdateDayReq
    \/ FailingUpdatePriorityReq
    \/ FailingDeleteReq

SpecFailures == InitVariants /\ [][NextFailures]_vars

-----------------------------------------------------------------------------
(* extractPublicIdFromUrl on its own (the same text in src/Server.js and   *)
(* in src/unnamed/part_001): the argument is any JSON value of a request's *)
(* url field, a text being up to MaxSegments segments joined by '/'.       *)

\* Most segments of a URL text under watch.
MaxSegments == 3

\* Segments: empty, a name without extension, with one, with two, an
\* extension alone, the upload folder, another folder.
Segments ==
    { <<>>, <<"d">>, <<"a",".","p">>, <<"a",".","b",".","c">>, <<".","p">>,
      CLOUDINARY_FOLDER, <<"v","1">> }

\* Array.prototype.join('/'), the inverse of split('/')
RECURSIVE JoinSlash(_)
JoinSlash(segs) ==
    IF Len(segs) = 1 THEN segs[1]
    ELSE segs[1] \o <<"/">> \o JoinSlash(Tail(segs))

ExtractArguments ==
    {Undefined, Null, Num(1)}
        \cup {Str(JoinSlash(segs)) : segs \in UNION {[1..n -> Segments] : n \in 1..MaxSegments}}

InitExtract ==
    /\ variant \in {"Server", "Part001"}
    /\ inflight = [slot \in Slots |-> Idle]
    /\ disturbed = {}
    /\ answers = [slot \in Slots |-> NoAnswer]
    /\ probe \in {[url |-> a, publicId |-> NoProbe.publicId] : a \in ExtractArguments}
    /\ statusStore = EmptyMap
    /\ lastAccepted = EmptyMap
    /\ activeHash = EmptyMap
    /\ priorityZset = EmptyMap
    /\ disabledSet = {}
    /\ assets = {}
    /\ issued = {}
    /\ resp = Response("none", 0, [none |-> TRUE])

\* const publicId = extractPublicIdFromUrl(url)
Extract ==
    /\ probe.publicId = NoProbe.publicId
    /\ probe' = [probe EXCEPT !.publicId = extractPublicIdFromUrl(probe.url)]
    /\ UNCHANGED <<variant, activeHash, priorityZset, disabledSet, assets, issued, resp>>
    /\ UNCHANGED <<inflight, disturbed, answers, statusStore, lastAccepted>>

SpecExtract == InitExtract /\ [][Extract]_vars

-----------------------------------------------------------------------------
(* The status version, src/unnamed/part_002: one hash banner:<id> per      *)
(* upload, holding id, url and status (and uploadedAt, which no route      *)
(* reads).  Requests run one at a time; `fail` is the number of the remote *)
(* call that throws.                                                       *)

ativo == <<"a","t","i","v","o">>
pausado == <<"p","a","u","s","a","d","o">>

\* result.public_id of the upload that returns secure_url u
PublicId(u) == CHOOSE i \in DOMAIN UrlTexts : UrlTexts[i] = u

\* The ids a status request names, uploaded or not.
BannerIds == {PublicId(u) : u \in Urls}

\* req.body.status of a JSON body
JsonStatuses == {Undefined, Str(ativo), Str(pausado), Str(<<"A","t","i","v","o">>), Num(1)}

\* HSET key {field: value, ...}: sets the fields, creating the hash if needed
HsetFields(store, key, fields) ==
    [k \in DOMAIN store \cup {key} |->
        IF k # key THEN store[k]
        ELSE IF key \notin DOMAIN store THEN fields
        ELSE [f \in DOMAIN store[key] \cup DOMAIN fields |->
                 IF f \in DOMAIN fields THEN fields[f] ELSE store[key][f]]]

\* EXISTS key
Exists(store, key) == IF key \in DOMAIN store THEN 1 ELSE 0

\* metadata && metadata.status === 'ativo'
\* (P2_IsActive_Always is its mutant that forgets the status.)
P2_IsActive_Always(metadata) == TRUE
P2_IsActive(metadata) == "status" \in DOMAIN metadata /\ metadata.status = Str(ativo)

\* POST /api/banners.  Remote calls: 1 upload, 2 hset.
P2_UploadHandler(store, media, body, uploaded, fail) ==
    LET bannerId == PublicId(uploaded)
        failed == Response("upload", 500, [error |-> "Falha no processamento do banner."])
        media1 == [assets |-> media.assets \cup {uploaded},
                   issued |-> media.issued \cup {uploaded}]
        metadata == [id |-> bannerId, url |-> uploaded, status |-> Str(ativo)]
        store2 == HsetFields(store, bannerId, metadata)
    IN  IF ~body.file
        THEN Outcome(store, media, Response("upload", 400, [error |-> "Nenhum arquivo enviado."]))
        ELSE IF fail = 1 THEN Outcome(store, media, failed)
        ELSE IF fail = 2 THEN Outcome(store, media1, failed)
        ELSE Outcome(store2, media1,
                     Response("upload", 200,
                              [message |-> "Upload bem-sucedido!", url |-> uploaded,
                               bannerId |-> bannerId]))

\* GET /api/banners.  Remote calls: 1 keys, 2 the hgetall of every key.
\* `order` is the order in which KEYS banner:* lists the keys.
P2_ListHandler(store, media, order, fail) ==
    LET allKeys == order
        allMetadata == [i \in DOMAIN allKeys |-> store[allKeys[i]]]
        activeBanners == SelectSeq(allMetadata, P2_IsActive)
        bannerUrls == [i \in DOMAIN activeBanners |-> activeBanners[i].url]
    IN  IF fail = 1
        THEN Outcome(store, media, Response("list", 500, [error |-> "Falha ao carregar banners."]))
        ELSE IF Len(allKeys) = 0
        THEN Outcome(store, media, Response("list", 200, [banners |-> <<>>]))
        ELSE IF fail = 2
        THEN Outcome(store, media, Response("list", 500, [error |-> "Falha ao carregar banners."]))
        ELSE Outcome(store, media, Response("list", 200, [banners |-> bannerUrls]))

\* PUT /api/banners/:id/status.  Remote calls: 1 exists, 2 hset.
P2_StatusHandler(store, media, bannerId, body, fail) ==
    LET newStatus == body.status
        failed == Response("status", 500, [error |-> "Falha ao atualizar o status do banner."])
        exists == Exists(store, bannerId)
        store2 == HsetFields(store, bannerId, [status |-> newStatus])
    IN  IF newStatus # Str(ativo) /\ newStatus # Str(pausado)
        THEN Outcome(store, media,
                     Response("status", 400, [error |-> "Status invalido. Use 'ativo' ou 'pausado'."]))
        ELSE IF fail = 1 THEN Outcome(store, media, failed)
        ELSE IF exists = 0
        THEN Outcome(store, media,
                     Response("status", 404, [error |-> "Banner nao encontrado no Upstash.",
                                              id |-> bannerId]))
        ELSE IF fail = 2 THEN Outcome(store, media, failed)
        ELSE Outcome(store2, media,
                     Response("status", 200, [message |-> "Status do banner atualizado.",
                                              id |-> bannerId, status |-> newStatus]))

\* The state after a handler of part_002 has run to its response; an answer
\* 200 to an upload or to a status request is the banner's last accepted
\* status from then on.
P2_Apply(outcome, bannerId, status) ==
    \E out \in {outcome} :
        /\ statusStore' = out.reg
        /\ assets' = out.media.assets
        /\ issued' = out.media.issued
        /\ resp' = out.resp
        /\ lastAccepted' = IF out.resp.status = 200 /\ out.resp.op \in {"upload", "status"}
                            THEN Hset(lastAccepted, bannerId, status)
                            ELSE lastAccepted
        /\ UNCHANGED <<variant, activeHash, priorityZset, disabledSet>>
        /\ UNCHANGED <<inflight, disturbed, answers, probe>>

P2_UploadReq ==
    \E uploaded \in Urls \ issued, file \in BOOLEAN, fail \in 0..2 :
        P2_Apply(P2_UploadHandler(statusStore, Media, [file |-> file], uploaded, fail),
                 PublicId(uploaded), Str(ativo))

P2_ListOutcome(order, fail) == P2_ListHandler(statusStore, Media, order, fail)

P2_ListReq ==
    \E order \in Orders(DOMAIN statusStore), fail \in 0..2 :
        P2_Apply(P2_ListOutcome(order, fail), 0, Undefined)

P2_StatusOutcome(bannerId, status, fail) ==
    P2_StatusHandler(statusStore, Media, bannerId, [status |-> status], fail)

P2_StatusReq ==
    \E bannerId \in BannerIds, status \in JsonStatuses, fail \in 0..2 :
        P2_Apply(P2_StatusOutcome(bannerId, status, fail), bannerId, status)

InitStatus == InitOf({"Part002"})

NextStatus ==
    \/ P2_UploadReq
    \/ P2_ListReq
    \/ P2_StatusReq

SpecStatus == InitStatus /\ [][NextStatus]_vars

-----------------------------------------------------------------------------
(* Vocabulary of the properties.                                           *)

InActive(u) == u \in DOMAIN activeHash
InDisabled(u) == u \in disabledSet
HasScore(u) == u \in DOMAIN priorityZset

\* The state of a banner in the registry.
StateOf(u) ==
    IF InActive(u) THEN "ACTIVE" ELSE IF InDisabled(u) THEN "DISABLED" ELSE "none"

RegistryUnchanged == UNCHANGED <<activeHash, priorityZset, disabledSet>>

\* Well-formed request fields: a day of the enum or none, a priority >= 0.
GoodJsonDays == {Undefined} \cup {Str(d) : d \in validDays}
GoodJsonPriorities == {Num(n) : n \in 0..MaxPriority}

\* The elements of a list.
Range(list) == {list[i] : i \in DOMAIN list}

\* What the three list endpoints answer in the current state, for a given
\* weekday and a given order of the store's reply.
TodayList(today, order) == ListTodayOutcome(today, order).resp.body.banners
AllList(order) == ListAllOutcome(order).resp.body.banners
DisabledList(order) == ListDisabledOutcome(order).resp.body.banners
AllListUrls(order) == {AllList(order)[i].url : i \in DOMAIN AllList(order)}

\* The URL appears in none of the three lists, whatever the weekday and the
\* order of the store's replies.
InNoList(u) ==
    /\ \A order \in Orders(DOMAIN activeHash) :
          /\ u \notin AllListUrls(order)
          /\ \A today \in DOMAIN DAYS_MAP : u \notin Range(TodayList(today, order))
    /\ \A order \in Orders(disabledSet) : u \notin Range(DisabledList(order))

\* The outcome answers 404 and leaves the registry as it is.
NotFoundNoChange(out) == out.resp.status = 404 /\ out.reg = Registry

\* The ways a delete request can go: the Media Store's result, or a throw.
DeleteRuns == {<<r, 0>> : r \in DestroyResults} \cup {<<"thrown", 4>>}

\* Every well-formed disable, enable, update-day, update-priority and
\* delete request for u is answered 404 and changes nothing in the registry.
RejectedEverywhere(u) ==
    /\ NotFoundNoChange(DisableOutcome(Str(u)))
    /\ \A d \in GoodJsonDays, p \in GoodJsonPriorities \cup {Undefined} :
          NotFoundNoChange(EnableOutcome(Str(u), d, p))
    /\ \A d \in GoodJsonDays : NotFoundNoChange(UpdateDayOutcome(Str(u), d))
    /\ \A p \in GoodJsonPriorities : NotFoundNoChange(UpdatePriorityOutcome(Str(u), p))
    /\ \A run \in DeleteRuns : NotFoundNoChange(DeleteOutcome(Str(u), run[1], run[2]))

\* The step is a delete request for u.
DeleteStepFor(u) ==
    resp'.op = "delete" /\ \E run \in DeleteRuns : Delete(Str(u), run[1], run[2])

-----------------------------------------------------------------------------
(* C1.  With requests run one at a time and every store call succeeding,   *)
(* no URL is in both the active hash and the disabled set, a created URL   *)
(* is in one of them, and it leaves them only by a delete request for it:  *)
(* every URL created and not yet deleted is in exactly one of the two.     *)
C1_ExactlyOneMembership ==
    /\ [](\A u \in Urls : ~(InActive(u) /\ InDisabled(u)))
    /\ [][\A u \in Urls :
            /\ (u \in issued' /\ u \notin issued) => (InActive(u) \/ InDisabled(u))'
            /\ ((InActive(u) \/ InDisabled(u)) /\ ~(InActive(u) \/ InDisabled(u))')
                   => DeleteStepFor(u)
         ]_vars

\* C1 witness: after a successful enable one banner is active while another
\* one is disabled.
C1_Witness ==
    /\ resp.op = "enable" /\ resp.status = 200
    /\ \E u, v \in Urls : InActive(u) /\ ~InDisabled(u) /\ InDisabled(v) /\ ~InActive(v)

-----------------------------------------------------------------------------
(* C2.  The only transitions of a URL are none -> ACTIVE by create,        *)
(* ACTIVE -> DISABLED by disable, DISABLED -> ACTIVE by enable and         *)
(* ACTIVE/DISABLED -> none by delete.  For a URL in state none, disable,   *)
(* enable, update-day, update-priority and delete with well-formed fields  *)
(* answer 404 and change nothing in the store.  A URL the Media Store has  *)
(* issued and that is in state none (a deleted URL) stays in state none,   *)
(* and a URL in state none is in none of the three lists.                  *)
C2_Lifecycle ==
    /\ [](\A u \in Urls : StateOf(u) = "none" => (InNoList(u) /\ RejectedEverywhere(u)))
    /\ [][\A u \in Urls :
            /\ StateOf(u)' # StateOf(u) =>
                  \/ /\ StateOf(u) = "none" /\ StateOf(u)' = "ACTIVE"
                     /\ resp' = Response("create", 201, resp'.body) /\ resp'.body.url = u
                  \/ /\ StateOf(u) = "ACTIVE" /\ StateOf(u)' = "DISABLED"
                     /\ resp' = Response("disable", 200, resp'.body) /\ resp'.body.url = u
                  \/ /\ StateOf(u) = "DISABLED" /\ StateOf(u)' = "ACTIVE"
                     /\ resp' = Response("enable", 200, resp'.body) /\ resp'.body.url = u
                  \/ /\ StateOf(u)' = "none"
                     /\ DeleteStepFor(u)
            /\ (u \in issued /\ StateOf(u) = "none") => StateOf(u)' = "none"
         ]_vars

\* C2 witness: every URL has been created and deleted, and the last request,
\* an enable, was answered 404.
C2_Witness ==
    /\ issued = Urls
    /\ \A u \in Urls : StateOf(u) = "none"
    /\ resp.op = "enable" /\ resp.status = 404

-----------------------------------------------------------------------------
(* C3.  In every state, for every day of the enum (or none) and every      *)
(* well-formed priority >= 0 (or none), create answers 201 echoing the     *)
(* new URL, the day (ALL when omitted) and the priority (0 when omitted),  *)
(* and a listAllActive that follows at once holds exactly one record for   *)
(* the new URL, which carries these values.  The same holds of the state   *)
(* right after any create answered 201.                                    *)

GoodFormDays == {Undefined} \cup {Str(d) : d \in validDays}
GoodFormPriorities == {Undefined} \cup {Str(NumToChars(n)) : n \in 0..MaxPriority}

GivenDay(d) == IF d = Undefined THEN ALL ELSE d.s
GivenPriority(p) ==
    IF p = Undefined THEN Num(0)
    ELSE Num(CHOOSE n \in 0..MaxPriority : p = Str(NumToChars(n)))

\* listAllActive run on a given registry.
AllListOn(reg, media, order) ==
    (IF variant = "Server" THEN ListAllHandler(reg, media, order, 0)
     ELSE IF variant = "Part001" THEN P1_ListAllHandler(reg, media, order, 0)
     ELSE P0_ListAllHandler(reg, media, order, 0)).resp.body.banners

\* The list holds the record exactly once, and no other record of its URL.
HoldsOnce(list, record) ==
    /\ Cardinality({i \in DOMAIN list : list[i].url = record.url}) = 1
    /\ \E i \in DOMAIN list : list[i] = record

C3_CreateThenListAll ==
    /\ \A d \in GoodFormDays, p \in GoodFormPriorities, uploaded \in Urls \ issued :
          LET out == CreateOutcome(TRUE, d, p, uploaded, 0)
              record == [url |-> uploaded, day |-> GivenDay(d), priority |-> GivenPriority(p)]
          IN  /\ out.resp = Response("create", 201, record)
              /\ \A order \in Orders(DOMAIN out.reg.hash) :
                    LET list == AllListOn(out.reg, out.media, order)
                    IN  HoldsOnce(list, record)
    /\ (resp.op = "create" /\ resp.status = 201) =>
          \A order \in Orders(DOMAIN activeHash) : HoldsOnce(AllList(order), resp.body)

\* C3 witness: a create with day MON and the largest priority was answered
\* 201 while another banner was already active.
C3_Witness ==
    /\ resp.op = "create" /\ resp.status = 201
    /\ resp.body.day = MON /\ resp.body.priority = Num(MaxPriority)
    /\ \E u \in Urls : u # resp.body.url /\ InActive(u)

-----------------------------------------------------------------------------
(* C4.  In every state and for every weekday, listActiveForToday returns   *)
(* exactly the URLs that are in the active hash with day ALL or today's    *)
(* code, each once, and none that is in the disabled set.                  *)

ActiveOn(todayKey) == {u \in Urls : InActive(u) /\ activeHash[u] \in {ALL, todayKey}}

ExactlyActiveOn(list, todayKey) ==
    /\ Range(list) = ActiveOn(todayKey)
    /\ Len(list) = Cardinality(Range(list))
    /\ Range(list) \cap disabledSet = {}

C4_TodayExactlyActiveForDay ==
    /\ \A today \in DOMAIN DAYS_MAP, order \in Orders(DOMAIN activeHash) :
          ExactlyActiveOn(TodayList(today, order), DAYS_MAP[today])
    /\ (resp.op = "listToday" /\ resp.status = 200) =>
          ExactlyActiveOn(resp.body.banners, resp.body.day)

\* C4 witness: listActiveForToday answered an empty list on a day other
\* than Monday while one banner is active for MON and another is disabled.
C4_Witness ==
    /\ resp.op = "listToday" /\ resp.status = 200
    /\ resp.body.day # MON /\ resp.body.banners = <<>>
    /\ \E u, v \in Urls : InActive(u) /\ activeHash[u] = MON /\ InDisabled(v)

-----------------------------------------------------------------------------
(* C5.  In every state and for every weekday, listActiveForToday returns   *)
(* its banners by non-increasing priority, and two returned banners of     *)
(* equal priority stand in descending byte order of their URLs: the order  *)
(* of ZREVRANGE, which is not the order in which they became active.       *)

\* Greatest score first; among equal scores the greater URL first.
ZrevrangeOrdered(list) ==
    \A i, j \in DOMAIN list :
        i < j => \/ priorityZset[list[i]] > priorityZset[list[j]]
                 \/ /\ priorityZset[list[i]] = priorityZset[list[j]]
                    /\ StrLess(list[j], list[i])

C5_TodayByPriorityThenUrlDescending ==
    /\ \A today \in DOMAIN DAYS_MAP, order \in Orders(DOMAIN activeHash) :
          ZrevrangeOrdered(TodayList(today, order))
    /\ (resp.op = "listToday" /\ resp.status = 200) => ZrevrangeOrdered(resp.body.banners)

\* C5 witness: listActiveForToday answered two banners of equal priority.
C5_Witness ==
    /\ resp.op = "listToday" /\ resp.status = 200
    /\ Len(resp.body.banners) = 2
    /\ priorityZset[resp.body.banners[1]] = priorityZset[resp.body.banners[2]]

\* Non-increasing priority alone.
PriorityDescending(list) ==
    \A i, j \in DOMAIN list : i < j => priorityZset[list[i]] >= priorityZset[list[j]]

\* listActiveForToday run on a given registry.
TodayListOn(reg, media, today, order) ==
    (IF variant = "Server" THEN ListTodayHandler(reg, media, today, order, 0)
     ELSE IF variant = "Part001" THEN P1_ListTodayHandler(reg, media, today, order, 0)
     ELSE P0_ListTodayHandler(reg, media, today, order, 0)).resp.body.banners

\* u stands behind every other banner of its priority in the list.
LastOfItsPriority(list, zset, u) ==
    \A i, j \in DOMAIN list :
        (list[j] = u /\ list[i] # u /\ zset[list[i]] = zset[u]) => i < j

\* C5 as the specification states it: sorted by non-increasing priority,
\* and banners of equal priority in insertion order whatever their URLs
\* are; the banner a create makes active then stands, in the list that
\* follows the create, behind every banner of its priority that was active
\* before.
C5_TodayTiesInInsertionOrder ==
    /\ \A today \in DOMAIN DAYS_MAP, order \in Orders(DOMAIN activeHash) :
          PriorityDescending(TodayList(today, order))
    /\ \A p \in GoodFormPriorities, uploaded \in Urls \ issued :
          LET out == CreateOutcome(TRUE, Undefined, p, uploaded, 0)
          IN  \A today \in DOMAIN DAYS_MAP, order \in Orders(DOMAIN out.reg.hash) :
                 LastOfItsPriority(TodayListOn(out.reg, out.media, today, order),
                                   out.reg.zset, uploaded)

-----------------------------------------------------------------------------
(* C6.  In every state and for every order of the hash's fields,           *)
(* listAllActive returns exactly one record per active banner, carrying    *)
(* its stored day and priority.  src/Server.js returns the records by      *)
(* non-increasing priority; src/unnamed/part_001 returns them unsorted, in *)
(* the order of the hash's fields.                                         *)

ActiveRecord(u) == [url |-> u, day |-> activeHash[u], priority |-> Num(priorityZset[u])]

OneRecordPerActive(list) ==
    /\ Range(list) = {ActiveRecord(u) : u \in DOMAIN activeHash}
    /\ Len(list) = Cardinality(DOMAIN activeHash)

RecordsDescending(list) ==
    \A i, j \in DOMAIN list : i < j => list[i].priority.n >= list[j].priority.n

C6_AllCompleteSortedInServer ==
    /\ \A order \in Orders(DOMAIN activeHash) :
          /\ OneRecordPerActive(AllList(order))
          /\ variant = "Server" => RecordsDescending(AllList(order))
          /\ variant = "Part001" => [i \in DOMAIN order |-> AllList(order)[i].url] = order
    /\ (resp.op = "listAll" /\ resp.status = 200) =>
          /\ OneRecordPerActive(resp.body.banners)
          /\ variant = "Server" => RecordsDescending(resp.body.banners)

\* C6 witness: listAllActive of src/unnamed/part_001 answered a record of
\* lower priority before one of higher priority.
C6_Witness ==
    /\ variant = "Part001"
    /\ resp.op = "listAll" /\ resp.status = 200
    /\ Len(resp.body.banners) = 2
    /\ resp.body.banners[1].priority.n < resp.body.banners[2].priority.n

\* C6 as the specification states it: complete and by non-increasing
\* priority in both files.
C6_AllCompleteSortedEverywhere ==
    (resp.op = "listAll" /\ resp.status = 200) =>
        /\ OneRecordPerActive(resp.body.banners)
        /\ RecordsDescending(resp.body.banners)

-----------------------------------------------------------------------------
(* C7.  As the specification states it: in every state and for every form  *)
(* of the request, create answers 400 exactly when no file is attached,    *)
(* or a day is supplied that is not of the enum (read without regard to    *)
(* letter case), or a priority is supplied that is negative or is not a    *)
(* number; every other request is accepted with 201.                       *)

\* The text is a decimal integer: an optional sign and digits, nothing else.
IsNumeral(s) ==
    LET digits == IF s # <<>> /\ s[1] \in {"-", "+"} THEN Tail(s) ELSE s
    IN  digits # <<>> /\ \A i \in DOMAIN digits : IsDigit(digits[i])

DayNotInEnum(d) == d # Undefined /\ ToUpperCase(d.s) \notin validDays

PriorityNegativeOrNonNumeric(p) ==
    p # Undefined /\ (~IsNumeral(p.s) \/ p.s[1] = "-")

C7_CreateRejectsExactlyInvalid ==
    \A file \in BOOLEAN, d \in FormDays, p \in FormPriorities, uploaded \in Urls \ issued :
        LET out == CreateOutcome(file, d, p, uploaded, 0)
        IN  IF ~file \/ DayNotInEnum(d) \/ PriorityNegativeOrNonNumeric(p)
            THEN out.resp.status = 400
            ELSE out.resp.status = 201

-----------------------------------------------------------------------------
(* C8.  In every state, a create request that passes validation and whose  *)
(* upload fails is answered 500 and leaves the active hash, the priority   *)
(* sorted set and the disabled set as they are; and every step that        *)
(* answers a create with 500 changes none of the three.                    *)

C8_UploadFailureLeavesRegistry ==
    /\ [](\A d \in FormDays, p \in FormPriorities, uploaded \in Urls \ issued :
             LET out == CreateOutcome(TRUE, d, p, uploaded, 1)
             IN  out.resp.status # 400 => (out.resp.status = 500 /\ out.reg = Registry))
    /\ [][(resp'.op = "create" /\ resp'.status = 500) => RegistryUnchanged]_vars

\* C8 witness: a create was answered 500 while the registry held an active
\* banner with its score.
C8_Witness ==
    /\ resp.op = "create" /\ resp.status = 500
    /\ activeHash # EmptyMap /\ priorityZset # EmptyMap

-----------------------------------------------------------------------------
(* C9.  In src/Server.js and in src/unnamed/part_001, in every state a     *)
(* disable of a URL that is not in the active hash is answered 404 and     *)
(* leaves the registry as it is; the message is the 'already disabled'     *)
(* one exactly when the URL is in the disabled set, and the 'not found     *)
(* among the active' one otherwise.  So is a second disable right after a  *)
(* successful one answered 404 'already disabled'.                         *)

AlreadyDisabled == [error |-> "Banner ja esta na lista de desativados."]
NotAmongActive == [error |-> "Banner nao encontrado na lista de ativos."]

-----------------------------------------------------------------------------
(* C10.  In every state, a disable of a URL of the active hash is answered *)
(* 200, removes the URL's field from the hash and its member from the      *)
(* sorted set, adds the URL to the disabled set and changes nothing else   *)
(* in the three; in the state it leaves, listDisabled holds the URL and    *)
(* listAllActive and listActiveForToday do not, whatever the weekday.  The *)
(* same holds of the state right after any disable answered 200.           *)

\* listDisabled run on a given registry.
DisabledListOn(reg, media, order) ==
    ListDisabledHandler(reg, media, order, 0).resp.body.banners

\* With this registry, only listDisabled lists u.
ListedAsDisabled(reg, media, u) ==
    /\ \A order \in Orders(reg.disabled) : u \in Range(DisabledListOn(reg, media, order))
    /\ \A order \in Orders(DOMAIN reg.hash) :
          LET all == AllListOn(reg, media, order)
          IN  /\ \A i \in DOMAIN all : all[i].url # u
              /\ \A today \in DOMAIN DAYS_MAP :
                    u \notin Range(TodayListOn(reg, media, today, order))

C10_DisableMovesOnlyTheUrl ==
    /\ \A u \in Urls :
          InActive(u) =>
              LET out == DisableOutcome(Str(u))
              IN  /\ out.resp.status = 200 /\ out.resp.body.url = u
                  /\ out.reg.hash = Restrict(activeHash, DOMAIN activeHash \ {u})
                  /\ out.reg.zset = Restrict(priorityZset, DOMAIN priorityZset \ {u})
                  /\ out.reg.disabled = disabledSet \cup {u}
                  /\ ListedAsDisabled(out.reg, out.media, u)
    /\ (resp.op = "disable" /\ resp.status = 200) =>
          /\ ~InActive(resp.body.url) /\ ~HasScore(resp.body.url) /\ InDisabled(resp.body.url)
          /\ ListedAsDisabled(Registry, Media, resp.body.url)

\* C10 witness: a disable was answered 200 and another banner is still
\* active with its day rule and its score.
C10_Witness ==
    /\ resp.op = "disable" /\ resp.status = 200
    /\ InDisabled(resp.body.url)
    /\ \E v \in Urls : v # resp.body.url /\ InActive(v) /\ HasScore(v)

-----------------------------------------------------------------------------
(* C11.  In every state, an enable with a day of the enum (or none) and a  *)
(* priority >= 0 (or none) for a URL that is not in the disabled set is    *)
(* answered 404 and leaves the active hash, the sorted set and the         *)
(* disabled set as they are, be the URL active (its day and its score      *)
(* stay) or unknown; the message tells the two cases apart.                *)

AlreadyActive == [error |-> "Banner ja esta ativo."]
NotAmongDisabled == [error |-> "Banner nao encontrado na lista de desativados."]

C11_EnableNotDisabled ==
    \A u \in Urls :
        ~InDisabled(u) =>
            \A d \in GoodJsonDays, p \in GoodJsonPriorities \cup {Undefined} :
                LET out == EnableOutcome(Str(u), d, p)
                IN  /\ NotFoundNoChange(out)
                    /\ out.resp.body = IF InActive(u) THEN AlreadyActive ELSE NotAmongDisabled

\* C11 witness: an enable was answered 404 'already active' while a banner
\* is active for MON with the largest priority.
C11_Witness ==
    /\ resp = Response("enable", 404, AlreadyActive)
    /\ \E u \in Urls : InActive(u) /\ activeHash[u] = MON /\ priorityZset[u] = MaxPriority

-----------------------------------------------------------------------------
(* C12.  In every state, an enable of a URL of the disabled set with a day *)
(* of the enum (or none) and a priority >= 0 (or none) is answered 200,    *)
(* takes the URL out of the disabled set and makes it active with the day  *)
(* and the priority supplied, ALL and 0 where omitted.  For every active   *)
(* URL, whatever its day and priority, a disable followed by an enable     *)
(* without day and priority leaves it active with day ALL and priority 0.  *)
(* The state right after any enable answered 200 holds what it answered.   *)

JsonGivenPriority(p) == IF p = Undefined THEN Num(0) ELSE p

\* The registry holds u as active with this day and priority, not disabled.
ActiveWith(reg, u, day, priority) ==
    /\ u \notin reg.disabled
    /\ u \in DOMAIN reg.hash /\ reg.hash[u] = day
    /\ u \in DOMAIN reg.zset /\ reg.zset[u] = priority.n

C12_EnableSetsGivenOrDefault ==
    /\ \A u \in disabledSet, d \in GoodJsonDays, p \in GoodJsonPriorities \cup {Undefined} :
          LET out == EnableOutcome(Str(u), d, p)
          IN  /\ out.resp.status = 200
              /\ out.resp.body.day = GivenDay(d)
              /\ out.resp.body.priority = JsonGivenPriority(p)
              /\ ActiveWith(out.reg, u, GivenDay(d), JsonGivenPriority(p))
    /\ \A u \in DOMAIN activeHash :
          LET disabled == DisableOn(Registry, Media, Str(u))
              enabled == EnableOn(disabled.reg, disabled.media, Str(u), Undefined, Undefined)
          IN  /\ enabled.resp.status = 200
              /\ ActiveWith(enabled.reg, u, ALL, Num(0))
    /\ (resp.op = "enable" /\ resp.status = 200) =>
          ActiveWith(Registry, resp.body.url, resp.body.day, resp.body.priority)

\* C12 witness: an enable was answered 200 with the defaults ALL and 0 for
\* a URL, while another banner is active with a day and a priority of its
\* own.
C12_Witness ==
    /\ resp.op = "enable" /\ resp.status = 200
    /\ resp.body.day = ALL /\ resp.body.priority = Num(0)
    /\ \E v \in Urls : v # resp.body.url /\ InActive(v) /\ activeHash[v] = MON

-----------------------------------------------------------------------------
(* C13.  As the specification states it: in every state, update-day with a *)
(* day of the enum (or none) and update-priority with a priority >= 0 are  *)
(* answered 404 and write nothing when the URL is not active; update-day   *)
(* with a day that is not of the enum (read without regard to letter case) *)
(* and update-priority with a priority that is negative or is not a number *)
(* are answered 400, whatever the URL.                                     *)

JsonPriorityNegativeOrNonNumeric(p) ==
    IF p.t = "number" THEN p.n < 0 ELSE PriorityNegativeOrNonNumeric(p)

C13_UpdatesRejectNotActiveAndInvalid ==
    /\ \A u \in Urls :
          ~InActive(u) =>
              /\ \A d \in GoodJsonDays : NotFoundNoChange(UpdateDayOutcome(Str(u), d))
              /\ \A p \in GoodJsonPriorities : NotFoundNoChange(UpdatePriorityOutcome(Str(u), p))
    /\ \A u \in Urls :
          /\ \A d \in {x \in JsonDays : x # Undefined /\ x.t = "string"} :
                DayNotInEnum(d) => UpdateDayOutcome(Str(u), d).resp.status = 400
          /\ \A p \in JsonPriorities \ {Undefined} :
                JsonPriorityNegativeOrNonNumeric(p) =>
                    UpdatePriorityOutcome(Str(u), p).resp.status = 400

-----------------------------------------------------------------------------
(* C14.  In every state and for every active URL, an update-day with a day *)
(* of the enum (or none) is answered 200 and changes the URL's field of    *)
(* the hash and nothing else; an update-priority with a priority >= 0 is   *)
(* answered 200 and changes the URL's score and nothing else.  The sorted  *)
(* set, respectively the hash, the disabled set and every other URL's      *)
(* record stay, and the URL stays active.                                  *)

C14_UpdatesChangeOneAttribute ==
    /\ \A u \in DOMAIN activeHash, d \in GoodJsonDays :
          LET out == UpdateDayOutcome(Str(u), d)
          IN  /\ out.resp.status = 200
              /\ out.reg = [Registry EXCEPT !.hash = [activeHash EXCEPT ![u] = GivenDay(d)]]
    /\ \A u \in DOMAIN activeHash, p \in GoodJsonPriorities :
          LET out == UpdatePriorityOutcome(Str(u), p)
          IN  /\ out.resp.status = 200
              /\ out.reg = [Registry EXCEPT !.zset = [priorityZset EXCEPT ![u] = p.n]]
    /\ (resp.op = "updateDay" /\ resp.status = 200) =>
          /\ InActive(resp.body.url) /\ ~InDisabled(resp.body.url)
          /\ activeHash[resp.body.url] = resp.body.day
    /\ (resp.op = "updatePriority" /\ resp.status = 200) =>
          /\ InActive(resp.body.url) /\ ~InDisabled(resp.body.url)
          /\ priorityZset[resp.body.url] = resp.body.priority.n

\* C14 witness: an update-priority was answered 200 for a banner that keeps
\* its day MON, while another URL is disabled.
C14_Witness ==
    /\ resp.op = "updatePriority" /\ resp.status = 200
    /\ resp.body.priority = Num(MaxPriority)
    /\ activeHash[resp.body.url] = MON
    /\ \E v \in Urls : v # resp.body.url /\ InDisabled(v)

-----------------------------------------------------------------------------
(* C15.  In src/Server.js and in src/unnamed/part_000, in every state a    *)
(* delete is answered 404 exactly when the URL is in none of the active    *)
(* hash, the sorted set and the disabled set, whatever the Media Store     *)
(* would answer; the 404 leaves the registry and the Media Store as they   *)
(* are.  A second delete of a URL, after a first one that removed it, is   *)
(* answered 404, as is any delete right after a delete answered 200.       *)

Held(u) == InActive(u) \/ HasScore(u) \/ InDisabled(u)

C15_DeleteNotFoundExactlyWhenNotHeld ==
    /\ \A u \in Urls, run \in DeleteRuns :
          LET out == DeleteOutcome(Str(u), run[1], run[2])
          IN  /\ out.resp.status = 404 <=> ~Held(u)
              /\ out.resp.status = 404 => (out.reg = Registry /\ out.media = Media)
              /\ Held(u) =>
                    \A again \in DeleteRuns :
                        LET second == DeleteOn(out.reg, out.media, Str(u), again[1], again[2])
                        IN  /\ second.resp.status = 404
                            /\ second.reg = out.reg /\ second.media = out.media
    /\ (resp.op = "delete" /\ resp.status = 200) =>
          \A run \in DeleteRuns :
              NotFoundNoChange(DeleteOutcome(Str(resp.body.url), run[1], run[2]))

\* C15 witness: in src/unnamed/part_000 a delete was answered 404 for a URL
\* whose asset is still in the Media Store, while another URL is disabled.
C15_Witness ==
    /\ variant = "Part000"
    /\ resp.op = "delete" /\ resp.status = 404
    /\ \E u \in assets : ~Held(u)
    /\ disabledSet # {}

-----------------------------------------------------------------------------
(* C16.  In every state, a delete of a URL that is active or disabled      *)
(* leaves it in none of the three keys and in none of listAllActive,       *)
(* listActiveForToday and listDisabled, whether the Media Store answers    *)
(* ok, not found or an error, whether its call throws, and whether the     *)
(* storage identifier can be derived or not.  No URL that was issued and   *)
(* is no longer held is in any list, and the URL of a delete answered 200  *)
(* is in none.                                                             *)

\* With this registry, no list endpoint lists u.
ListedNowhere(reg, media, u) ==
    /\ \A order \in Orders(reg.disabled) : u \notin Range(DisabledListOn(reg, media, order))
    /\ \A order \in Orders(DOMAIN reg.hash) :
          LET all == AllListOn(reg, media, order)
          IN  /\ \A i \in DOMAIN all : all[i].url # u
              /\ \A today \in DOMAIN DAYS_MAP :
                    u \notin Range(TodayListOn(reg, media, today, order))

C16_DeleteRemovesFromEveryList ==
    /\ \A u \in Urls :
          Held(u) =>
              \A run \in DeleteRuns :
                  LET out == DeleteOutcome(Str(u), run[1], run[2])
                  IN  /\ out.resp.status \in {200, 500}
                      /\ u \notin DOMAIN out.reg.hash
                      /\ u \notin DOMAIN out.reg.zset
                      /\ u \notin out.reg.disabled
                      /\ ListedNowhere(out.reg, out.media, u)
    /\ \A u \in issued : ~Held(u) => ListedNowhere(Registry, Media, u)
    /\ (resp.op = "delete" /\ resp.status = 200) =>
          (~Held(resp.body.url) /\ ListedNowhere(Registry, Media, resp.body.url))

\* C16 witness: a delete was answered 500, the destroy call having thrown;
\* the URL is in no key while its asset is still in the Media Store, and
\* the other URL is still held.
C16_Witness ==
    /\ resp.op = "delete" /\ resp.status = 500
    /\ \E u \in issued \cap assets : ~Held(u)
    /\ \E v \in Urls : Held(v)

-----------------------------------------------------------------------------
(* C17.  As the specification states it: in every state, a delete of a     *)
(* held URL is answered 200 when the storage identifier cannot be derived  *)
(* (with the warning, the Media Store's status absent) and when the Media  *)
(* Store answers ok, not found or an error; and the response reports the   *)
(* Media Store's outcome, so two different outcomes are not answered with  *)
(* the same response.                                                      *)

C17_DeleteReportsMediaOutcome ==
    \A u \in Urls :
        Held(u) =>
            IF extractPublicIdFromUrl(Str(u)) = Null
            THEN \A r \in DestroyResults :
                    LET out == DeleteOutcome(Str(u), r, 0)
                    IN  /\ out.resp.status = 200
                        /\ "cloudinaryStatus" \notin DOMAIN out.resp.body
            ELSE /\ \A r \in DestroyResults : DeleteOutcome(Str(u), r, 0).resp.status = 200
                 /\ \A r1, r2 \in DestroyResults :
                       r1 # r2 => DeleteOutcome(Str(u), r1, 0).resp # DeleteOutcome(Str(u), r2, 0).resp

-----------------------------------------------------------------------------
(* C18.  As the specification states it: every request is answered with a  *)
(* response of status 200, 201, 400, 404 or 500, whatever its body (a      *)
(* numeric day included) and whatever the remote calls do, and no error    *)
(* escapes the handler.                                                    *)

C18_EveryRequestAnswered ==
    resp.op # "none" =>
        /\ resp.status \in {200, 201, 400, 404, 500}
        /\ "thrown" \notin DOMAIN resp.body

-----------------------------------------------------------------------------
(* C20.  As the specification states it: in src/Server.js and in           *)
(* src/unnamed/part_001 alike, in every state an update-priority for an    *)
(* active URL whose body has no priority is answered 400 and leaves the    *)
(* registry, the banner's score included, as it is.                        *)

C20_UpdatePriorityRequiresPriority ==
    \A u \in DOMAIN activeHash :
        LET out == UpdatePriorityOutcome(Str(u), Undefined)
        IN  out.resp.status = 400 /\ out.reg = Registry

-----------------------------------------------------------------------------
(* C19.  With the store calls of two requests interleaved and any store    *)
(* call able to throw, a created URL on which no request is running is in  *)
(* exactly one of the active hash and the disabled set unless a request on *)
(* it was cut by a failed store call or ran while another request on it    *)
(* did; with such a request, states are reached in which a URL is in       *)
(* neither of the two and in which a URL is in both.                       *)

NoneRunningOn(u) == \A slot \in Slots : inflight[slot] = Idle \/ inflight[slot].url # u

C19_OneMembershipUnlessCutOrRaced ==
    \A u \in issued :
        (NoneRunningOn(u) /\ u \notin disturbed) => (InActive(u) <=> ~InDisabled(u))

\* C19 witness: no request is running, one created URL is in neither the
\* active hash nor the disabled set, and another is in both.
C19_Witness ==
    /\ \A slot \in Slots : inflight[slot] = Idle
    /\ \E u, v \in issued :
          /\ ~InActive(u) /\ ~InDisabled(u)
          /\ InActive(v) /\ InDisabled(v)

-----------------------------------------------------------------------------
(* C21.  As the specification states it: for every argument,               *)
(* extractPublicIdFromUrl returns 'banners_folder/<name>', <name> being    *)
(* the last '/'-separated segment without its final extension (the whole   *)
(* segment when it has none), exactly when the argument is a text of at    *)
(* least two segments whose second-to-last is 'banners_folder', and null   *)
(* otherwise; and <name> is not empty when the last segment is not.        *)

\* The segment without its final extension.
WithoutFinalExtension(seg) ==
    IF \E i \in DOMAIN seg : seg[i] = "."
    THEN SubSeq(seg, 1, LastIndexOf(seg, "."))
    ELSE seg

ExpectedPublicId(url) ==
    IF url.t # "string" THEN Null
    ELSE LET parts == Split(url.s)
         IN  IF Len(parts) >= 2 /\ parts[Len(parts) - 1] = CLOUDINARY_FOLDER
             THEN Str(CLOUDINARY_FOLDER \o <<"/">> \o WithoutFinalExtension(parts[Len(parts)]))
             ELSE Null

C21_PublicIdKeepsTheName ==
    probe.publicId # NoProbe.publicId =>
        /\ probe.publicId = ExpectedPublicId(probe.url)
        /\ (probe.publicId # Null /\ Split(probe.url.s)[Len(Split(probe.url.s))] # <<>>) =>
              probe.publicId.s # CLOUDINARY_FOLDER \o <<"/">>

-----------------------------------------------------------------------------
(* C22.  In src/unnamed/part_002, in every state reached by uploads, list  *)
(* and status requests run one at a time (any remote call may throw), and  *)
(* for every order in which the keys are listed, GET /api/banners returns  *)
(* exactly the URLs, each once, of the banners whose upload was answered   *)
(* 200 and whose last answer 200 to an upload or a status request set      *)
(* 'ativo'.  A status request with another value is answered 400 and one   *)
(* for an id without record 404, and both leave every key as it is,        *)
(* creating none.                                                          *)

\* The URLs of the banners whose last accepted status is 'ativo'.
AcceptedActiveUrls ==
    {u \in Urls : PublicId(u) \in DOMAIN lastAccepted /\ lastAccepted[PublicId(u)] = Str(ativo)}

ExactlyAcceptedActive(list) ==
    /\ Range(list) = AcceptedActiveUrls
    /\ Len(list) = Cardinality(AcceptedActiveUrls)

C22_ListIsLastAcceptedActive ==
    /\ \A order \in Orders(DOMAIN statusStore) :
          LET out == P2_ListOutcome(order, 0)
          IN  out.resp.status = 200 /\ ExactlyAcceptedActive(out.resp.body.banners)
    /\ (resp.op = "list" /\ resp.status = 200) => ExactlyAcceptedActive(resp.body.banners)
    /\ \A bannerId \in BannerIds, status \in JsonStatuses :
          LET out == P2_StatusOutcome(bannerId, status, 0)
          IN  /\ status \notin {Str(ativo), Str(pausado)} =>
                    (out.resp.status = 400 /\ out.reg = statusStore)
              /\ (status \in {Str(ativo), Str(pausado)} /\ bannerId \notin DOMAIN lastAccepted) =>
                    (out.resp.status = 404 /\ out.reg = statusStore)
    /\ DOMAIN statusStore = DOMAIN lastAccepted
    /\ (resp.op = "status" /\ resp.status \in {400, 404}) =>
          \A bannerId \in DOMAIN statusStore : statusStore[bannerId].status = lastAccepted[bannerId]

\* C22 witness: the list was answered with one URL while another banner,
\* uploaded too, is paused.
C22_Witness ==
    /\ resp.op = "list" /\ resp.status = 200 /\ Len(resp.body.banners) = 1
    /\ \E bannerId \in DOMAIN lastAccepted : lastAccepted[bannerId] = Str(pausado)

-----------------------------------------------------------------------------
(* C23.  As the specification states it: under every interleaving of the   *)
(* store calls of two requests on the same URL, the write of an update-day *)
(* or of an update-priority never lands on a URL that is, at that moment,  *)
(* DISABLED (in the disabled set and in neither of the other keys) or      *)
(* deleted (in none of the three keys, no other request running): such a   *)
(* URL is in neither the active hash nor the sorted set after the write.   *)

\* The handler in this slot issues the write of an update in this step.
UpdateWrites(slot) ==
    /\ inflight[slot] # Idle
    /\ inflight[slot].op \in {"updateDay", "updatePriority"}
    /\ inflight[slot].pc = 2
    /\ inflight'[slot] = Idle

DisabledOrDeleted(slot, u) ==
    /\ ~InActive(u) /\ ~HasScore(u)
    /\ InDisabled(u) \/ \A other \in Slots \ {slot} : inflight[other] = Idle

C23_UpdateWritesOnlyToActive ==
    [][\A slot \in Slots :
          (UpdateWrites(slot) /\ DisabledOrDeleted(slot, inflight[slot].url)) =>
              /\ inflight[slot].url \notin DOMAIN activeHash'
              /\ inflight[slot].url \notin DOMAIN priorityZset']_vars

-----------------------------------------------------------------------------
(* C24.  As the specification states it: under every interleaving of a     *)
(* delete with an enable, a disable, an update-day or an update-priority   *)
(* of the same URL, once the delete has answered 200 and no request is     *)
(* running, the URL is in none of the active hash, the sorted set and the  *)
(* disabled set, and a disable or an enable of it is not answered 200.     *)

DeleteAnswered200(u) ==
    \E slot \in Slots :
        answers[slot].op = "delete" /\ answers[slot].status = 200 /\ answers[slot].url = u

C24_DeletedStaysDeleted ==
    (\A slot \in Slots : inflight[slot] = Idle) =>
        \A u \in issued :
            DeleteAnswered200(u) =>
                /\ ~InActive(u) /\ ~HasScore(u) /\ ~InDisabled(u)
                /\ DisableOutcome(Str(u)).resp.status # 200
                /\ EnableOutcome(Str(u), Undefined, Undefined).resp.status # 200

-----------------------------------------------------------------------------
(* C25.  As the specification states it: of two disable requests for the   *)
(* same active URL started together, under every interleaving of their     *)
(* store calls and in src/Server.js and src/unnamed/part_001 alike, one is *)
(* answered 200 and the other 404, and once both have answered the URL is  *)
(* in the disabled set and in neither the active hash nor the sorted set.  *)

BothDisablesAnswered ==
    /\ \A slot \in Slots : inflight[slot] = Idle /\ answers[slot].op = "disable"
    /\ resp.op = "disable"

C25_OneDisableSucceeds ==
    BothDisablesAnswered =>
        /\ {answers[slot].status : slot \in Slots} = {200, 404}
        /\ \A slot \in Slots :
              /\ InDisabled(answers[slot].url)
              /\ ~InActive(answers[slot].url)
              /\ ~HasScore(answers[slot].url)

-----------------------------------------------------------------------------
(* C26.  With requests run one at a time and any one remote call of a      *)
(* request able to throw, in every state no URL is in both the active hash *)
(* and the disabled set; and whichever call of a disable or of an enable   *)
(* throws, the URL it names is in at most one of the two afterwards (in    *)
(* neither when the call that adds it is the one that throws).             *)

InAtMostOne(reg, u) == ~(u \in DOMAIN reg.hash /\ u \in reg.disabled)

C26_NeverActiveAndDisabled ==
    /\ \A u \in Urls : InAtMostOne(Registry, u)
    /\ \A u \in Urls, fail \in 0..3 :
          /\ InAtMostOne(DisableFailing(Str(u), fail).reg, u)
          /\ InAtMostOne(EnableFailing(Str(u), Undefined, Undefined, fail).reg, u)
    /\ \A u \in DOMAIN activeHash :
          LET out == DisableFailing(Str(u), 3)
          IN  out.resp.status = 500 /\ u \notin DOMAIN out.reg.hash /\ u \notin out.reg.disabled
    /\ \A u \in disabledSet :
          LET out == EnableFailing(Str(u), Undefined, Undefined, 2)
          IN  out.resp.status = 500 /\ u \notin DOMAIN out.reg.hash /\ u \notin out.reg.disabled

\* C26 witness: a disable was answered 500 and a banner whose asset exists
\* is in neither the active hash nor the disabled set, while another
\* banner is disabled.
C26_Witness ==
    /\ resp.op = "disable" /\ resp.status = 500
    /\ \E u \in assets : ~InActive(u) /\ ~InDisabled(u)
    /\ disabledSet # {}

-----------------------------------------------------------------------------
(* C27.  In src/Server.js, with requests run one at a time and every store *)
(* call succeeding, in every state the URLs with a score in the sorted set *)
(* are exactly the URLs with a day rule in the active hash, and no URL of  *)
(* the disabled set has a score.                                           *)

C27_ScoresExactlyOfActive ==
    /\ DOMAIN priorityZset = DOMAIN activeHash
    /\ \A u \in disabledSet : ~HasScore(u)

\* C27 witness: a delete was answered 200 while one banner is disabled and
\* no banner is active: the sorted set is empty although scores were given.
C27_Witness ==
    /\ resp.op = "delete" /\ resp.status = 200
    /\ disabledSet # {}
    /\ priorityZset = EmptyMap
    /\ resp.body.url \in issued

-----------------------------------------------------------------------------
(* C28.  As the specification states it: in every state, a create whose    *)
(* upload, whose write of the day rule or whose write of the score throws  *)
(* is answered 500 and leaves the registry without a record of the banner: *)
(* its URL has no day rule and no score, and listAllActive and             *)
(* listActiveForToday answer what they answered before the request.        *)

\* What listAllActive and listActiveForToday can answer on a registry.
AllAnswers(reg, media) == {AllListOn(reg, media, order) : order \in Orders(DOMAIN reg.hash)}
TodayAnswers(reg, media, today) ==
    {TodayListOn(reg, media, today, order) : order \in Orders(DOMAIN reg.hash)}

FailedCreateLeavesNoRecord(uploaded, fail) ==
    LET out == CreateOutcome(TRUE, Undefined, Undefined, uploaded, fail)
    IN  /\ out.resp.status = 500
        /\ uploaded \notin DOMAIN out.reg.hash
        /\ uploaded \notin DOMAIN out.reg.zset
        /\ AllAnswers(out.reg, out.media) = AllAnswers(Registry, Media)
        /\ \A today \in DOMAIN DAYS_MAP :
              TodayAnswers(out.reg, out.media, today) = TodayAnswers(Registry, Media, today)

C28_FailedCreateWritesNothing ==
    \A uploaded \in Urls \ issued, fail \in 1..3 : FailedCreateLeavesNoRecord(uploaded, fail)

-----------------------------------------------------------------------------
(* Rejected requests.  src/Server.js with the requests its handlers answer *)
(* 400, on registries built by plain creates, disables and deletes.        *)

PlainCreateReq ==
    \E uploaded \in Urls \ issued : Create(TRUE, Undefined, Undefined, uploaded, 0)

PlainDisableReq == \E u \in Urls : Disable(Str(u))

PlainDeleteReq == \E u \in Urls : Delete(Str(u), "ok", 0)

RejectedCreateReq ==
    \E file \in BOOLEAN, day \in FormDays, priority \in FormPriorities, uploaded \in Urls \ issued :
        /\ CreateOutcome(file, day, priority, uploaded, 0).resp.status = 400
        /\ Create(file, day, priority, uploaded, 0)

RejectedDisableReq ==
    \E url \in JsonUrls :
        /\ DisableOutcome(url).resp.status = 400
        /\ Disable(url)

RejectedEnableReq ==
    \E url \in JsonUrls, day \in JsonDays, priority \in JsonPriorities :
        /\ EnableOutcome(url, day, priority).resp.status = 400
        /\ Enable(url, day, priority)

RejectedUpdateDayReq ==
    \E url \in JsonUrls, day \in JsonDays :
        /\ UpdateDayOutcome(url, day).resp.status = 400
        /\ UpdateDay(url, day)

RejectedUpdatePriorityReq ==
    \E url \in JsonUrls, priority \in JsonPriorities :
        /\ UpdatePriorityOutcome(url, priority).resp.status = 400
        /\ UpdatePriority(url, priority)

RejectedDeleteReq ==
    \E url \in JsonUrls :
        /\ DeleteOutcome(url, "ok", 0).resp.status = 400
        /\ Delete(url, "ok", 0)

NextRejections ==
    \/ PlainCreateReq
    \/ PlainDisableReq
    \/ PlainDeleteReq
    \/ RejectedCreateReq
    \/ RejectedDisableReq
    \/ RejectedEnableReq
    \/ RejectedUpdateDayReq
    \/ RejectedUpdatePriorityReq
    \/ RejectedDeleteReq

SpecRejections == Init /\ [][NextRejections]_vars

-----------------------------------------------------------------------------
(* C29.  In src/Server.js, in every state and for every request body, a    *)
(* create, disable, enable, update-day, update-priority or delete that is  *)
(* answered 400 issues no remote call (no call of it can throw) and leaves *)
(* the registry and the Media Store as they are; and whether a request is  *)
(* answered 400 does not depend on the registry, so that an enable, an     *)
(* update-day or an update-priority with a day outside the enum, a         *)
(* negative priority or a priority that is no number is answered 400 for   *)
(* a URL the registry does not know, as it is for one it knows.            *)

EmptyRegistry == [hash |-> EmptyMap, zset |-> EmptyMap, disabled |-> {}]

\* The handler ran without a remote call: whichever call is made to throw,
\* the outcome is the same, and it is the state the handler found.
NoCallNoChange(out, whenThrown) ==
    /\ whenThrown = {out}
    /\ out.reg = Registry /\ out.media = Media

\* The outcome is 400 on the current registry exactly if it is on an empty
\* one, and a 400 comes without a remote call.
RejectedBeforeAnyCall(out, onEmpty, whenThrown) ==
    /\ (out.resp.status = 400) <=> (onEmpty.resp.status = 400)
    /\ out.resp.status = 400 => NoCallNoChange(out, whenThrown)

-----------------------------------------------------------------------------
(* C30.  In src/Server.js and src/unnamed/part_001, requests running one   *)
(* after another and any remote call possibly failing: a delete invokes    *)
(* the Media Store's destroy only as its fourth and last remote call,      *)
(* after the three registry removals, and only when they removed the URL   *)
(* from at least one key; a delete answered 400 or 404, or one whose       *)
(* registry removal throws, does not invoke it and deletes no asset; when  *)
(* it is invoked the URL is in no registry key any more.  So in every      *)
(* state, a URL whose asset was deleted is neither in the active hash nor  *)
(* in the disabled set.                                                    *)

HeldBy(reg, u) == u \in DOMAIN reg.hash \/ u \in DOMAIN reg.zset \/ u \in reg.disabled

\* The delete reaches its destroy call: making that call throw changes the
\* outcome.
DestroyInvoked(url, destroyResult) ==
    DeleteOutcome(url, destroyResult, 4) # DeleteOutcome(url, destroyResult, 0)

DestroyOnlyAfterRemoval(url, destroyResult) ==
    LET out == DeleteOutcome(url, destroyResult, 0)
        invoked == DestroyInvoked(url, destroyResult)
    IN  /\ invoked => /\ url.t = "string"
                      /\ HeldBy(Registry, url.s)
                      /\ ~HeldBy(out.reg, url.s)
                      /\ out.resp.status = 200
                      /\ DeleteOutcome(url, destroyResult, 4).resp.status = 500
                      /\ DeleteOutcome(url, destroyResult, 4).media = Media
        /\ out.resp.status \in {400, 404} => ~invoked /\ out.media = Media
        /\ out.media # Media => invoked /\ destroyResult = "ok"
        /\ \A fail \in 1..3 : DeleteOutcome(url, destroyResult, fail).media = Media

C30_DestroyOnlyAfterRegistryRemoval ==
    /\ \A url \in JsonUrls, destroyResult \in DestroyResults :
          DestroyOnlyAfterRemoval(url, destroyResult)
    /\ \A u \in issued \ assets : u \notin DOMAIN activeHash /\ u \notin disabledSet

\* C30 witness: a delete was answered 200 and its asset is gone, while
\* another banner is still registered.
C30_Witness ==
    /\ resp.op = "delete" /\ resp.status = 200
    /\ \E u \in issued \ assets : resp.body.url = u
    /\ \E u \in assets : HeldBy(Registry, u)

=============================================================================
